---- MODULE Spec2Model ----
(***************************************************************************)
(* Hollo advanced search: tokenizer -> recursive-descent parser -> AST ->  *)
(* SQL filter.  Strings are sequences of one-character strings; indices    *)
(* are 1-based (the code's 0-based index i is i + 1 here).                 *)
(***************************************************************************)
EXTENDS Integers, Sequences, FiniteSets, TLC

VARIABLES
  query,    \* the raw query string handed to parseSearchQuery
  stage,    \* position of the request: "input", "parsed", "built", "searched"
  tokens,   \* token array produced by tokenize
  ast,      \* SearchNode | null returned by parseSearchQuery
  filter,   \* SQL condition built by the search handler
  post,     \* the posts row the WHERE clause is evaluated on
  accountId, \* the request's optional account_id parameter
  selected, \* whether the row is returned by findMany
  pos,      \* Parser.pos of the stepwise parser
  stack,    \* call stack of the stepwise parser (innermost frame last)
  ret,      \* value returned by the frame that was popped last
  threw,    \* TRUE once the stepwise parser dereferenced a missing token
  other     \* the registers of a second invocation while it is not running

vars == <<query, stage, tokens, ast, filter, post, accountId, selected, other, pos, stack, ret, threw>>

(***************************************************************************)
(* Strings                                                                 *)
(***************************************************************************)
Null == [type |-> "null"]

UpperChars == <<"A","B","C","D","E","F","G","H","I","J","K","L","M",
                "N","O","P","Q","R","S","T","U","V","W","X","Y","Z">>

LowerChars == <<"a","b","c","d","e","f","g","h","i","j","k","l","m",
                "n","o","p","q","r","s","t","u","v","w","x","y","z">>

DigitChars == <<"0","1","2","3","4","5","6","7","8","9">>

toLowerCaseChar(ch) ==
  IF \E i \in 1..Len(UpperChars) : UpperChars[i] = ch
  THEN LowerChars[CHOOSE i \in 1..Len(UpperChars) : UpperChars[i] = ch]
  ELSE ch

toLowerCase(s) == [i \in 1..Len(s) |-> toLowerCaseChar(s[i])]

isDigit(ch) == \E i \in 1..Len(DigitChars) : DigitChars[i] = ch

digitValue(ch) == (CHOOSE i \in 1..Len(DigitChars) : DigitChars[i] = ch) - 1

\* String.prototype.indexOf for a single character; 0 when absent
indexOf(s, ch) ==
  IF \E i \in 1..Len(s) : s[i] = ch
  THEN CHOOSE i \in 1..Len(s) : s[i] = ch /\ \A j \in 1..(i - 1) : s[j] # ch
  ELSE 0

includes(s, ch) == \E i \in 1..Len(s) : s[i] = ch

substring(s, from, to) == SubSeq(s, from, to)

RECURSIVE Flatten(_)
Flatten(ss) == IF ss = <<>> THEN <<>> ELSE Head(ss) \o Flatten(Tail(ss))

(***************************************************************************)
(* Tokenizer                                                               *)
(***************************************************************************)
isWhitespace(ch) == ch \in {" ", "\t", "\n"}

isSpecial(ch) == ch = "(" \/ ch = ")"

RECURSIVE trimStart(_)
trimStart(s) ==
  IF s # <<>> /\ isWhitespace(Head(s)) THEN trimStart(Tail(s)) ELSE s

RECURSIVE trimEnd(_)
trimEnd(s) ==
  IF s # <<>> /\ isWhitespace(s[Len(s)])
  THEN trimEnd(SubSeq(s, 1, Len(s) - 1))
  ELSE s

trim(s) == trimEnd(trimStart(s))

\* the inner while loop of the quoted-string branch
RECURSIVE scanQuoted(_, _, _, _)
\* a loop that takes either quote character for the closing quote
scanQuotedAnyQuote(input, p, quote, value) ==
  IF p > Len(input) THEN [closed |-> FALSE, value |-> value, pos |-> p]
  ELSE IF input[p] = "\\" THEN
    IF p + 1 <= Len(input)
    THEN scanQuoted(input, p + 2, quote, Append(value, input[p + 1]))
    ELSE scanQuoted(input, p + 1, quote, value)
  ELSE IF input[p] = "\"" \/ input[p] = "'"
    THEN [closed |-> TRUE, value |-> value, pos |-> p + 1]
  ELSE scanQuoted(input, p + 1, quote, Append(value, input[p]))

scanQuoted(input, p, quote, value) ==
  IF p > Len(input) THEN [closed |-> FALSE, value |-> value, pos |-> p]
  ELSE IF input[p] = "\\" THEN
    IF p + 1 <= Len(input)
    THEN scanQuoted(input, p + 2, quote, Append(value, input[p + 1]))
    ELSE scanQuoted(input, p + 1, quote, value)
  ELSE IF input[p] = quote THEN [closed |-> TRUE, value |-> value, pos |-> p + 1]
  ELSE scanQuoted(input, p + 1, quote, Append(value, input[p]))

\* the inner while loop of the word branch
RECURSIVE scanWord(_, _, _)
scanWord(input, p, word) ==
  IF p <= Len(input) /\ ~isWhitespace(input[p]) /\ ~isSpecial(input[p])
  THEN scanWord(input, p + 1, Append(word, input[p]))
  ELSE [word |-> word, pos |-> p]

\* a split that accepts an empty value after the colon
wordTokenEmptyValue(word) ==
  IF word = <<"O", "R">> THEN [type |-> "OR", value |-> word]
  ELSE LET colonIndex == indexOf(word, ":")
       IN IF colonIndex > 1
          THEN [type |-> "OPERATOR", value |-> word,
                operatorName |-> toLowerCase(substring(word, 1, colonIndex - 1)),
                operatorValue |-> substring(word, colonIndex + 1, Len(word))]
          ELSE [type |-> "WORD", value |-> word]

wordToken(word) ==
  IF word = <<"O", "R">> THEN [type |-> "OR", value |-> word]
  ELSE LET colonIndex == indexOf(word, ":")
       IN IF colonIndex > 1 /\ colonIndex < Len(word)
          THEN [type |-> "OPERATOR", value |-> word,
                operatorName |-> toLowerCase(substring(word, 1, colonIndex - 1)),
                operatorValue |-> substring(word, colonIndex + 1, Len(word))]
          ELSE [type |-> "WORD", value |-> word]

\* a test that takes every '-' at the start of a token for a negation
isNegationAnywhere(input, p) == input[p] = "-"

\* input[pos] === "-" && pos + 1 < input.length && !isWhitespace(input[pos + 1])
isNegation(input, p) ==
  input[p] = "-" /\ p + 1 <= Len(input) /\ ~isWhitespace(input[p + 1])

RECURSIVE tokenizeFrom(_, _, _)
tokenizeFrom(input, p, toks) ==
  IF p > Len(input) THEN Append(toks, [type |-> "EOF", value |-> <<>>])
  ELSE IF isWhitespace(input[p]) THEN tokenizeFrom(input, p + 1, toks)
  ELSE IF input[p] = "("
    THEN tokenizeFrom(input, p + 1, Append(toks, [type |-> "LPAREN", value |-> <<"(">>]))
  ELSE IF input[p] = ")"
    THEN tokenizeFrom(input, p + 1, Append(toks, [type |-> "RPAREN", value |-> <<")">>]))
  ELSE IF isNegation(input, p)
    THEN tokenizeFrom(input, p + 1, Append(toks, [type |-> "NEGATION", value |-> <<"-">>]))
  ELSE IF input[p] = "\"" \/ input[p] = "'"
    THEN LET q == scanQuoted(input, p + 1, input[p], <<>>)
         IN IF q.closed
            THEN tokenizeFrom(input, q.pos, Append(toks, [type |-> "QUOTED", value |-> q.value]))
            ELSE tokenizeFrom(input, q.pos,
                              Append(toks, [type |-> "WORD", value |-> <<input[p]>> \o q.value]))
  ELSE LET w == scanWord(input, p, <<>>)
       IN IF Len(w.word) > 0
          THEN tokenizeFrom(input, w.pos, Append(toks, wordToken(w.word)))
          ELSE tokenizeFrom(input, w.pos, toks)

tokenize(input) == tokenizeFrom(input, 1, <<>>)

(***************************************************************************)
(* Parser helpers                                                          *)
(***************************************************************************)
\* Parser.current / Parser.peek
current(toks, p) == toks[p]

peek(toks, p) == toks[p]

\* advance that also stays put on a NEGATION token
advanceKeepsNegation(toks, p) ==
  IF current(toks, p).type \notin {"EOF", "NEGATION"} THEN p + 1 ELSE p

\* Parser.advance: the position after consuming the current token
advance(toks, p) == IF current(toks, p).type # "EOF" THEN p + 1 ELSE p

isLeapYear(y) == (y % 4 = 0 /\ y % 100 # 0) \/ y % 400 = 0

daysInMonth(y, monthIndex) ==
  IF monthIndex = 1 THEN (IF isLeapYear(y) THEN 29 ELSE 28)
  ELSE IF monthIndex \in {3, 5, 8, 10} THEN 30
  ELSE 31

\* new Date(year, monthIndex, day) in local time, read back through
\* getFullYear / getMonth / getDate: years 0..99 mean 1900..1999 and a day
\* past the end of the month carries into the next month
localDate(year, monthIndex, day) ==
  LET y == IF year >= 0 /\ year <= 99 THEN 1900 + year ELSE year
      dim == daysInMonth(y, monthIndex)
  IN IF day <= dim THEN [fullYear |-> y, month |-> monthIndex, date |-> day]
     ELSE IF monthIndex = 11 THEN [fullYear |-> y + 1, month |-> 0, date |-> day - dim]
     ELSE [fullYear |-> y, month |-> monthIndex + 1, date |-> day - dim]

\* /^\d{4}-\d{2}-\d{2}$/
dateRegexTest(value) ==
  /\ Len(value) = 10
  /\ \A i \in {1, 2, 3, 4, 6, 7, 9, 10} : isDigit(value[i])
  /\ value[5] = "-"
  /\ value[8] = "-"

\* Number() of a string of decimal digits
RECURSIVE toNumber(_)
toNumber(s) ==
  IF s = <<>> THEN 0
  ELSE 10 * toNumber(SubSeq(s, 1, Len(s) - 1)) + digitValue(s[Len(s)])

isValidDate(value) ==
  IF ~dateRegexTest(value) THEN FALSE
  ELSE LET year == toNumber(SubSeq(value, 1, 4))
           month == toNumber(SubSeq(value, 6, 7))
           day == toNumber(SubSeq(value, 9, 10))
       IN IF month < 1 \/ month > 12 THEN FALSE
          ELSE IF day < 1 \/ day > 31 THEN FALSE
          ELSE LET date == localDate(year, month - 1, day)
               IN /\ date.fullYear = year
                  /\ date.month = month - 1
                  /\ date.date = day

TextOperator(value) == [type |-> "text", value |-> value]

TermNode(operator, negated) ==
  [type |-> "term", operator |-> operator, negated |-> negated]

startsWithAt(value) == Len(value) > 0 /\ value[1] = "@"

\* a normalisation that strips every leading @
RECURSIVE normalizedValueStripsAll(_)
normalizedValueStripsAll(value) ==
  IF startsWithAt(value) THEN normalizedValueStripsAll(substring(value, 2, Len(value)))
  ELSE value

\* value.startsWith("@") ? value.substring(1) : value
normalizedValue(value) ==
  IF startsWithAt(value) THEN substring(value, 2, Len(value)) ELSE value

\* a fallback that keeps only the text after the colon
invalidOperatorValueOnly(name, value, originalText) == TextOperator(value)

\* the returns for an invalid value or an unknown operator name:
\* { type: "text", value: originalText }
invalidOperator(name, value, originalText) == TextOperator(originalText)

parseOperator(name, value, originalText) ==
  IF name = <<"h","a","s">> THEN
    IF value = <<"m","e","d","i","a">> \/ value = <<"p","o","l","l">>
    THEN [type |-> "has", value |-> value]
    ELSE invalidOperator(name, value, originalText)
  ELSE IF name = <<"i","s">> THEN
    IF value = <<"r","e","p","l","y">> \/ value = <<"s","e","n","s","i","t","i","v","e">>
    THEN [type |-> "is", value |-> value]
    ELSE invalidOperator(name, value, originalText)
  ELSE IF name = <<"l","a","n","g","u","a","g","e">> THEN
    [type |-> "language", value |-> toLowerCase(value)]
  ELSE IF name = <<"f","r","o","m">> THEN
    [type |-> "from", value |-> normalizedValue(value)]
  ELSE IF name = <<"m","e","n","t","i","o","n","s">> THEN
    [type |-> "mentions", value |-> normalizedValue(value)]
  ELSE IF name = <<"b","e","f","o","r","e">> THEN
    IF isValidDate(value) THEN [type |-> "before", value |-> value]
    ELSE invalidOperator(name, value, originalText)
  ELSE IF name = <<"a","f","t","e","r">> THEN
    IF isValidDate(value) THEN [type |-> "after", value |-> value]
    ELSE invalidOperator(name, value, originalText)
  ELSE invalidOperator(name, value, originalText)

RECURSIVE negateNode(_)
\* a negation that flips the leaves but keeps the node types
negateNodeKeepsType(node) ==
  IF node.type = "term" THEN [node EXCEPT !.negated = ~node.negated]
  ELSE [type |-> node.type,
        children |-> [i \in 1..Len(node.children) |-> negateNode(node.children[i])]]

negateNode(node) ==
  IF node.type = "term" THEN [node EXCEPT !.negated = ~node.negated]
  ELSE IF node.type = "or"
    THEN [type |-> "and",
          children |-> [i \in 1..Len(node.children) |-> negateNode(node.children[i])]]
  ELSE [type |-> "or",
        children |-> [i \in 1..Len(node.children) |-> negateNode(node.children[i])]]

\* the flattening for-loop of simplify
RECURSIVE flattenChildren(_, _)
flattenChildren(nodeType, children) ==
  IF children = <<>> THEN <<>>
  ELSE LET child == Head(children)
       IN (IF child.type = nodeType THEN child.children ELSE <<child>>)
          \o flattenChildren(nodeType, Tail(children))

RECURSIVE simplify(_)
\* a simplification that flattens the node's own children only
simplifyShallow(node) ==
  IF node.type = "term" THEN node
  ELSE LET flattenedChildren == flattenChildren(node.type, node.children)
       IN IF Len(flattenedChildren) = 0 THEN Null
          ELSE IF Len(flattenedChildren) = 1 THEN flattenedChildren[1]
          ELSE [type |-> node.type, children |-> flattenedChildren]

\* a simplification that collapses single children but does not flatten
simplifyNoFlatten(node) ==
  IF node.type = "term" THEN node
  ELSE LET simplifiedChildren ==
             SelectSeq([i \in 1..Len(node.children) |-> simplify(node.children[i])],
                       LAMBDA child : child # Null)
       IN IF Len(simplifiedChildren) = 0 THEN Null
          ELSE IF Len(simplifiedChildren) = 1 THEN simplifiedChildren[1]
          ELSE [type |-> node.type, children |-> simplifiedChildren]

simplify(node) ==
  IF node.type = "term" THEN node
  ELSE LET simplifiedChildren ==
             SelectSeq([i \in 1..Len(node.children) |-> simplify(node.children[i])],
                       LAMBDA child : child # Null)
           flattenedChildren == flattenChildren(node.type, simplifiedChildren)
       IN IF Len(flattenedChildren) = 0 THEN Null
          ELSE IF Len(flattenedChildren) = 1 THEN flattenedChildren[1]
          ELSE [type |-> node.type, children |-> flattenedChildren]

(***************************************************************************)
(* Parser, as the recursive descent of the source.  Every parse function   *)
(* returns the node (or Null) together with the position it stopped at.    *)
(***************************************************************************)
\* what parseOrExpr / parseAndExpr return for the collected children
collect(nodeType, children) ==
  IF Len(children) = 0 THEN Null
  ELSE IF Len(children) = 1 THEN children[1]
  ELSE [type |-> nodeType, children |-> children]

\* an empty group kept as the literal text "()"
groupResultEmptyAsText(inner, negated) ==
  IF inner = Null THEN TermNode(TextOperator(<<"(", ")">>), negated)
  ELSE IF negated THEN negateNode(inner)
  ELSE inner

\* a group whose '-' is ignored
groupResultDropsNegation(inner, negated) == inner

\* parseTerm's return for a group: De Morgan when negated, else the inner
\* expression (null for an empty group)
groupResult(inner, negated) ==
  IF inner # Null /\ negated THEN negateNode(inner) ELSE inner

RECURSIVE parseOrExpr(_, _)
RECURSIVE parseOrLoop(_, _, _)
RECURSIVE parseAndExpr(_, _)
RECURSIVE parseAndLoop(_, _, _)
RECURSIVE parseTerm(_, _)

\* a parseTerm that discards a group whose ")" is missing
parseTermDropsUnclosed(toks, p) ==
  LET negated == peek(toks, p).type = "NEGATION"
      p1 == IF negated THEN advance(toks, p) ELSE p
      token == peek(toks, p1)
  IN IF token.type = "LPAREN" THEN
       LET inner == parseOrExpr(toks, advance(toks, p1))
       IN IF peek(toks, inner.pos).type = "RPAREN"
          THEN [node |-> groupResult(inner.node, negated), pos |-> advance(toks, inner.pos)]
          ELSE [node |-> Null, pos |-> inner.pos]
     ELSE IF token.type = "OPERATOR" THEN
       [node |-> TermNode(parseOperator(token.operatorName, token.operatorValue,
                                        token.value), negated),
        pos |-> advance(toks, p1)]
     ELSE IF token.type \in {"QUOTED", "WORD"} THEN
       [node |-> TermNode(TextOperator(token.value), negated), pos |-> advance(toks, p1)]
     ELSE [node |-> Null, pos |-> p1]

parseTerm(toks, p) ==
  LET negated == peek(toks, p).type = "NEGATION"
      p1 == IF negated THEN advance(toks, p) ELSE p
      token == peek(toks, p1)
  IN IF token.type = "LPAREN" THEN
       LET inner == parseOrExpr(toks, advance(toks, p1))
           p2 == IF peek(toks, inner.pos).type = "RPAREN"
                 THEN advance(toks, inner.pos) ELSE inner.pos
       IN [node |-> groupResult(inner.node, negated), pos |-> p2]
     ELSE IF token.type = "OPERATOR" THEN
       [node |-> TermNode(parseOperator(token.operatorName, token.operatorValue,
                                        token.value), negated),
        pos |-> advance(toks, p1)]
     ELSE IF token.type = "QUOTED" THEN
       [node |-> TermNode(TextOperator(token.value), negated), pos |-> advance(toks, p1)]
     ELSE IF token.type = "WORD" THEN
       [node |-> TermNode(TextOperator(token.value), negated), pos |-> advance(toks, p1)]
     ELSE [node |-> Null, pos |-> p1]

\* a loop that ends the run at a term that parsed to nothing
parseAndLoopStopsAtNull(toks, p, children) ==
  LET token == peek(toks, p)
  IN IF token.type = "OR" /\ Len(children) > 0 THEN [node |-> collect("and", children), pos |-> p]
     ELSE IF token.type = "OR" /\ Len(children) = 0 THEN
       parseAndLoop(toks, advance(toks, p),
                    Append(children, TermNode(TextOperator(<<"O", "R">>), FALSE)))
     ELSE IF token.type = "RPAREN" \/ token.type = "EOF"
       THEN [node |-> collect("and", children), pos |-> p]
     ELSE LET term == parseTerm(toks, p)
          IN IF term.node = Null THEN [node |-> collect("and", children), pos |-> term.pos]
             ELSE parseAndLoop(toks, term.pos, Append(children, term.node))

\* a loop that stops at every OR, also when the run is still empty
parseAndLoopStopsAtOr(toks, p, children) ==
  LET token == peek(toks, p)
  IN IF token.type = "OR" \/ token.type = "RPAREN" \/ token.type = "EOF"
     THEN [node |-> collect("and", children), pos |-> p]
     ELSE LET term == parseTerm(toks, p)
          IN parseAndLoop(toks, term.pos,
                          IF term.node # Null THEN Append(children, term.node)
                          ELSE children)

parseAndLoop(toks, p, children) ==
  LET token == peek(toks, p)
  IN IF token.type = "OR" /\ Len(children) > 0 THEN [node |-> collect("and", children), pos |-> p]
     ELSE IF token.type = "OR" /\ Len(children) = 0 THEN
       parseAndLoop(toks, advance(toks, p),
                    Append(children, TermNode(TextOperator(<<"O", "R">>), FALSE)))
     ELSE IF token.type = "RPAREN" \/ token.type = "EOF"
       THEN [node |-> collect("and", children), pos |-> p]
     ELSE LET term == parseTerm(toks, p)
          IN parseAndLoop(toks, term.pos,
                          IF term.node # Null THEN Append(children, term.node)
                          ELSE children)

parseAndExpr(toks, p) == parseAndLoop(toks, p, <<>>)

\* a loop that keeps an OR without a right operand as the text OR
parseOrLoopTrailingAsText(toks, p, children) ==
  IF peek(toks, p).type = "OR" THEN
    LET next == parseAndExpr(toks, advance(toks, p))
    IN parseOrLoop(toks, next.pos,
                   Append(children,
                          IF next.node # Null THEN next.node
                          ELSE TermNode(TextOperator(<<"O", "R">>), FALSE)))
  ELSE [node |-> collect("or", children), pos |-> p]

parseOrLoop(toks, p, children) ==
  IF peek(toks, p).type = "OR" THEN
    LET next == parseAndExpr(toks, advance(toks, p))
    IN parseOrLoop(toks, next.pos,
                   IF next.node # Null THEN Append(children, next.node) ELSE children)
  ELSE [node |-> collect("or", children), pos |-> p]

\* an OR that takes a single term, not an AND-run, as its first operand
parseOrExprTermFirst(toks, p) ==
  LET first == parseTerm(toks, p)
  IN parseOrLoop(toks, first.pos,
                 IF first.node # Null THEN <<first.node>> ELSE <<>>)

parseOrExpr(toks, p) ==
  LET first == parseAndExpr(toks, p)
  IN parseOrLoop(toks, first.pos,
                 IF first.node # Null THEN <<first.node>> ELSE <<>>)

\* Parser.parse
parse(toks) ==
  LET result == parseOrExpr(toks, 1).node
  IN IF result # Null THEN simplify(result) ELSE Null

\* an entry point that hands the query to the tokenizer untrimmed
parseSearchQueryNoTrim(q) ==
  IF Len(trim(q)) = 0 THEN Null ELSE parse(tokenize(q))

parseSearchQuery(q) ==
  LET trimmed == trim(q)
  IN IF Len(trimmed) = 0 THEN Null ELSE parse(tokenize(trimmed))

(***************************************************************************)
(* Storage.  A nullable column holds <<>> for NULL and <<v>> for a value.  *)
(* A timestamp is [day, ms]: days since 1970-01-01 UTC and milliseconds    *)
(* into that day.                                                          *)
(***************************************************************************)
NULL == <<>>

Some(v) == <<v>>

\* the accounts table: id -> handle
Accounts ==
  << <<"@","a","l","i","@","a",".","i","o">>,
     <<"@","a","l","i","@","b",".","i","o">>,
     <<"@","a","l","i","x","@","a",".","i","o">>,
     <<"@","b","o","b","@","a",".","i","o">> >>

\* days since 1970-01-01 of a calendar date (proleptic Gregorian, UTC)
daysFromCivil(year, month, day) ==
  LET y == IF month <= 2 THEN year - 1 ELSE year
      era == y \div 400
      yoe == y - era * 400
      mp == IF month > 2 THEN month - 3 ELSE month + 9
      doy == (153 * mp + 2) \div 5 + day - 1
      doe == yoe * 365 + yoe \div 4 - yoe \div 100 + doy
  IN era * 146097 + doe - 719468

\* new Date("YYYY-MM-DD"): a date-only ISO string is midnight UTC
newDate(value) ==
  [day |-> daysFromCivil(toNumber(SubSeq(value, 1, 4)), toNumber(SubSeq(value, 6, 7)),
                         toNumber(SubSeq(value, 9, 10))),
   ms |-> 0]

\* date.setUTCHours(0, 0, 0, 0)
setUTCHoursZero(date) == [date EXCEPT !.ms = 0]

timeLt(a, b) == a.day < b.day \/ (a.day = b.day /\ a.ms < b.ms)

(***************************************************************************)
(* Predicate compiler                                                      *)
(***************************************************************************)
\* String.prototype.replace(/c/g, "\\c")
RECURSIVE escapeChar(_, _)
escapeChar(s, ch) ==
  IF s = <<>> THEN <<>>
  ELSE (IF Head(s) = ch THEN <<"\\", ch>> ELSE <<Head(s)>>) \o escapeChar(Tail(s), ch)

\* operator.value.replace(/%/g, "\\%").replace(/_/g, "\\_")
likeEscape(value) == escapeChar(escapeChar(value, "%"), "_")

buildTextFilter(operator) ==
  [op |-> "ilike", column |-> "contentHtml",
   pattern |-> <<"%">> \o likeEscape(operator.value) \o <<"%">>]

buildHasFilter(operator) ==
  IF operator.value = <<"m","e","d","i","a">>
  THEN [op |-> "existsMedia"]
  ELSE [op |-> "isNotNull", column |-> "pollId"]

buildIsFilter(operator) ==
  IF operator.value = <<"r","e","p","l","y">>
  THEN [op |-> "isNotNull", column |-> "replyTargetId"]
  ELSE [op |-> "eq", column |-> "sensitive", value |-> TRUE]

buildLanguageFilter(operator) ==
  [op |-> "eq", column |-> "language", value |-> operator.value]

\* the handle comparison of buildFromFilter and buildMentionsFilter
handleCondition(value) ==
  IF includes(value, "@")
  THEN [cmp |-> "eq", value |-> <<"@">> \o value]
  ELSE [cmp |-> "like", value |-> <<"@">> \o value \o <<"@", "%">>]

buildFromFilter(operator) ==
  [op |-> "existsAccount", handle |-> handleCondition(operator.value)]

buildMentionsFilter(operator) ==
  [op |-> "existsMention", handle |-> handleCondition(operator.value)]

buildBeforeFilter(operator) ==
  [op |-> "lt", column |-> "published", value |-> setUTCHoursZero(newDate(operator.value))]

\* an after: that excludes the instant of midnight itself
buildAfterFilterExclusive(operator) ==
  [op |-> "gt", column |-> "published", value |-> setUTCHoursZero(newDate(operator.value))]

buildAfterFilter(operator) ==
  [op |-> "gte", column |-> "published", value |-> setUTCHoursZero(newDate(operator.value))]

buildOperatorFilter(operator) ==
  CASE operator.type = "text" -> buildTextFilter(operator)
    [] operator.type = "has" -> buildHasFilter(operator)
    [] operator.type = "is" -> buildIsFilter(operator)
    [] operator.type = "language" -> buildLanguageFilter(operator)
    [] operator.type = "from" -> buildFromFilter(operator)
    [] operator.type = "mentions" -> buildMentionsFilter(operator)
    [] operator.type = "before" -> buildBeforeFilter(operator)
    [] operator.type = "after" -> buildAfterFilter(operator)

sqlNot(condition) == [op |-> "not", arg |-> condition]

sqlAnd(conditions) == [op |-> "and", args |-> conditions]

sqlOr(conditions) == [op |-> "or", args |-> conditions]

buildTermFilter(node) ==
  LET condition == buildOperatorFilter(node.operator)
  IN IF node.negated THEN sqlNot(condition) ELSE condition

RECURSIVE buildSearchFilter(_)
\* a compiler that joins the children of an or node with AND
buildSearchFilterOrAsAnd(node) ==
  IF node.type = "term" THEN buildTermFilter(node)
  ELSE sqlAnd([i \in 1..Len(node.children) |-> buildSearchFilter(node.children[i])])

buildSearchFilter(node) ==
  IF node.type = "term" THEN buildTermFilter(node)
  ELSE IF node.type = "and"
    THEN sqlAnd([i \in 1..Len(node.children) |-> buildSearchFilter(node.children[i])])
  ELSE sqlOr([i \in 1..Len(node.children) |-> buildSearchFilter(node.children[i])])

(***************************************************************************)
(* PostgreSQL's evaluation of a condition on one posts row, three-valued:  *)
(* "T", "F" or "N" (NULL).  A WHERE clause keeps the row iff it is "T".    *)
(***************************************************************************)
\* LIKE with the default escape character backslash: % matches any run,
\* _ any one character, \c the character c
RECURSIVE likeMatch(_, _)
likeMatch(pattern, str) ==
  IF pattern = <<>> THEN str = <<>>
  ELSE IF Head(pattern) = "%"
    THEN \E k \in 0..Len(str) : likeMatch(Tail(pattern), SubSeq(str, k + 1, Len(str)))
  ELSE IF Head(pattern) = "_"
    THEN str # <<>> /\ likeMatch(Tail(pattern), Tail(str))
  ELSE IF Head(pattern) = "\\" /\ Len(pattern) >= 2
    THEN str # <<>> /\ Head(str) = pattern[2]
         /\ likeMatch(SubSeq(pattern, 3, Len(pattern)), Tail(str))
  ELSE str # <<>> /\ Head(str) = Head(pattern) /\ likeMatch(Tail(pattern), Tail(str))

ilikeMatch(pattern, str) == likeMatch(toLowerCase(pattern), toLowerCase(str))

bool3(b) == IF b THEN "T" ELSE "F"

handleMatches(handle, cond) ==
  IF cond.cmp = "eq" THEN handle = cond.value ELSE likeMatch(cond.value, handle)

RECURSIVE evalCondition(_, _)
evalCondition(cond, row) ==
  CASE cond.op = "true" -> "T"
    [] cond.op = "ilike" ->
         IF row[cond.column] = NULL THEN "N"
         ELSE bool3(ilikeMatch(cond.pattern, row[cond.column][1]))
    [] cond.op = "existsMedia" -> bool3(row.media > 0)
    [] cond.op = "isNotNull" -> bool3(row[cond.column] # NULL)
    [] cond.op = "isNull" -> bool3(row[cond.column] = NULL)
    [] cond.op = "eq" ->
         IF row[cond.column] = NULL THEN "N"
         ELSE bool3(row[cond.column][1] = cond.value)
    [] cond.op = "existsAccount" ->
         bool3(\E id \in DOMAIN Accounts :
                 Some(id) = row.accountId /\ handleMatches(Accounts[id], cond.handle))
    [] cond.op = "existsMention" ->
         bool3(\E id \in row.mentions : handleMatches(Accounts[id], cond.handle))
    [] cond.op = "lt" ->
         IF row[cond.column] = NULL THEN "N"
         ELSE bool3(timeLt(row[cond.column][1], cond.value))
    [] cond.op = "gt" ->
         IF row[cond.column] = NULL THEN "N"
         ELSE bool3(timeLt(cond.value, row[cond.column][1]))
    [] cond.op = "gte" ->
         IF row[cond.column] = NULL THEN "N"
         ELSE bool3(~timeLt(row[cond.column][1], cond.value))
    [] cond.op = "not" ->
         LET v == evalCondition(cond.arg, row)
         IN IF v = "T" THEN "F" ELSE IF v = "F" THEN "T" ELSE "N"
    [] cond.op = "and" ->
         LET vs == { evalCondition(cond.args[i], row) : i \in 1..Len(cond.args) }
         IN IF "F" \in vs THEN "F" ELSE IF "N" \in vs THEN "N" ELSE "T"
    [] cond.op = "or" ->
         LET vs == { evalCondition(cond.args[i], row) : i \in 1..Len(cond.args) }
         IN IF "T" \in vs THEN "T" ELSE IF "N" \in vs THEN "N" ELSE "F"

\* findMany({ where }) returns the row
selects(cond, row) == evalCondition(cond, row) = "T"

(***************************************************************************)
(* Inputs                                                                  *)
(***************************************************************************)
MaxLexemes == 5

MaxLeaves == 3

MaxStepLexemes == 4

\* pieces a flat query is concatenated from
Lexemes == { <<"a">>, <<"b">>, <<" ">>, <<"(">>, <<")">>, <<"-">>,
             <<" ", "O", "R", " ">> }

\* q is a concatenation of at most max lexemes
IsFlatQuery(q, max) ==
  \E n \in 0..max : \E ls \in [1..n -> Lexemes] : q = Flatten(ls)

Separators == { <<" ">>, <<" ", "O", "R", " ">> }

Openers == { <<>>, <<"(">>, <<"-", "(">> }

\* two expressions joined by AND or OR, bare, grouped or as a negated group
Compose(open, x, sep, y) ==
  open \o x \o sep \o y \o (IF open = <<>> THEN <<>> ELSE <<")">>)

\* well-formed expressions with exactly n terms, every group binary
RECURSIVE TreeQueriesOf(_)
TreeQueriesOf(n) ==
  IF n = 1 THEN { <<"a">>, <<"b">>, <<"-", "a">> }
  ELSE UNION { { Compose(open, x, sep, y) :
                   x \in TreeQueriesOf(i), y \in TreeQueriesOf(n - i),
                   sep \in Separators, open \in Openers }
               : i \in 1..(n - 1) }

SmallTrees == [n \in 1..(MaxLeaves - 1) |-> TreeQueriesOf(n)]

\* q is a well-formed expression with at most max terms
IsTreeQuery(q) ==
  \/ q \in SmallTrees[1]
  \/ \E i \in 1..(MaxLeaves - 1), j \in 1..(MaxLeaves - 1) :
       /\ i + j <= MaxLeaves
       /\ \E x \in SmallTrees[i], y \in SmallTrees[j], sep \in Separators, open \in Openers :
            q = Compose(open, x, sep, y)

OperatorNames ==
  { <<"h","a","s">>, <<"H","a","s">>, <<"i","s">>, <<"l","a","n","g","u","a","g","e">>,
    <<"f","r","o","m">>, <<"m","e","n","t","i","o","n","s">>,
    <<"b","e","f","o","r","e">>, <<"a","f","t","e","r">>, <<"A","F","T","E","R">>,
    <<"f","o","o">>, <<"h","t","t","p">> }

OperatorValues ==
  { <<"m","e","d","i","a">>, <<"p","o","l","l">>, <<"M","e","d","i","a">>,
    <<"r","e","p","l","y">>, <<"s","e","n","s","i","t","i","v","e">>,
    <<"i","n","v","a","l","i","d">>, <<"E","N">>, <<"k","o">>,
    <<"@","a","l","i","c","e">>, <<"a","l","i","c","e","@","E","x",".","c","o","m">>,
    <<"2","0","2","4","-","0","1","-","1","5">>,
    <<"2","0","2","4","-","0","2","-","2","9">>,
    <<"2","0","2","4","-","0","2","-","3","0">>,
    <<"2","0","2","3","-","0","2","-","2","9">>,
    <<"2","0","2","4","-","1","3","-","0","1">>,
    <<"2","0","2","4","-","0","1","-","0","0">>,
    <<"2","0","2","4","-","1","-","1","5">>,
    <<"/","/","x",":","y">> }

\* a single name:value word, alone, negated, or between two plain words
OperatorQueries ==
  { pre \o name \o <<":">> \o value \o suf :
      name \in OperatorNames, value \in OperatorValues,
      pre \in { <<>>, <<"-">>, <<"a", " ">> }, suf \in { <<>>, <<" ", "b">> } }

\* the queries of the parser tests and of the documentation
ExampleQueries ==
  { <<>>,
    <<" "," "," ">>,
    <<"(",")"," ","(",")"," ","(",")">>,
    <<"(","(",")",")">>,
    <<"-","(","(","a"," ","O","R"," ","b",")"," ","(",")",")"," ","(","c"," ","d",")"," ","(","e"," ","O","R"," ","f",")">>,
    <<"("," ","\t"," ",")">>,
    <<"h","e","l","l","o">>,
    <<"\"","h","e","l","l","o"," ","w","o","r","l","d","\"">>,
    <<"'","h","e","l","l","o"," ","w","o","r","l","d","'">>,
    <<"-","h","a","s",":","m","e","d","i","a">>,
    <<"(","f","r","o","m",":","a","l","i","c","e"," ","O","R"," ","f","r","o","m",":","b","o","b",")"," ","h","a","s",":","p","o","l","l">>,
    <<"l","a","n","g","u","a","g","e",":","E","N">>,
    <<"b","e","f","o","r","e",":","2","0","2","4","-","1","3","-","0","1">>,
    <<"a"," ","b"," ","O","R"," ","c">>,
    <<"a"," ","O","R"," ","b"," ","c">>,
    <<"a"," ","O","R"," ","b"," ","O","R"," ","c"," ","d">>,
    <<"-","(","a"," ","O","R"," ","b",")">>,
    <<"-","a"," ","-","b">>,
    <<"-","(","a"," ","b",")">>,
    <<"-","a"," ","O","R"," ","-","b">>,
    <<"-","(","(","a"," ","O","R"," ","b",")"," ","c",")">>,
    <<"(","a"," ","b">>,
    <<"w","e","l","l","-","k","n","o","w","n">>,
    <<"a","-","b"," ","-","c"," ","-"," ","d"," ","-","-","e"," ","-","(","f",")"," ","-">>,
    <<"a"," ","O","R"," ","O","R"," ","b">>,
    <<"a"," ","o","r"," ","b">>,
    <<"(","(","a"," ","b",")"," ","c",")"," ","d">>,
    <<"(","(","a"," ","O","R"," ","b",")"," ","c",")"," ","O","R"," ","d">>,
    <<"a"," ","O","R"," ","(","b"," ","O","R"," ","(","c"," ","O","R"," ","d",")",")">>,
    <<"O","R">>,
    <<"(",")"," ","h","e","l","l","o">>,
    <<"(","h","e","l","l","o",")">>,
    <<"\"","u","n","c","l","o","s","e","d">>,
    <<"h","a","s",":","i","n","v","a","l","i","d">>,
    <<"-","b","e","f","o","r","e",":","n","o","t","-","a","-","d","a","t","e">>,
    <<"f","r","o","m",":","@","a","l","i","c","e","@","e","x","a","m","p","l","e",".","c","o","m">>,
    <<"(","h","a","s",":","m","e","d","i","a"," ","O","R"," ","h","a","s",":","p","o","l","l",")"," ","l","a","n","g","u","a","g","e",":","e","n"," ","-","i","s",":","s","e","n","s","i","t","i","v","e"," ","a","f","t","e","r",":","2","0","2","4","-","0","1","-","0","1">> }

\* the inputs parseSearchQuery is applied to
IsQuery(q) ==
  \/ IsFlatQuery(q, MaxLexemes)
  \/ IsTreeQuery(q)
  \/ q \in OperatorQueries
  \/ q \in ExampleQueries

(***************************************************************************)
(* The request pipeline with parseSearchQuery as one step                  *)
(***************************************************************************)
Idle ==
  /\ filter = Null
  /\ post = Null
  /\ accountId = NULL
  /\ selected = FALSE
  /\ other = Null
  /\ pos = 0
  /\ stack = <<>>
  /\ ret = Null
  /\ threw = FALSE

Init ==
  /\ IsQuery(query)
  /\ stage = "input"
  /\ tokens = <<>>
  /\ ast = Null
  /\ Idle

ParseQuery ==
  /\ stage = "input"
  /\ stage' = "parsed"
  /\ tokens' = IF Len(trim(query)) = 0 THEN <<>> ELSE tokenize(trim(query))
  /\ ast' = parseSearchQuery(query)
  /\ UNCHANGED <<query, filter, post, accountId, selected, other, pos, stack, ret, threw>>

Next == ParseQuery

Spec == Init /\ [][Next]_vars

(***************************************************************************)
(* parseSearchQuery on single from: / mentions: / before: / after: words   *)
(***************************************************************************)
MaxHandleLen == 4

HandleChars == { "@", "a", "B", "." }

HandleNames ==
  { <<"f","r","o","m">>, <<"F","r","o","m">>, <<"m","e","n","t","i","o","n","s">> }

Years ==
  { <<"0","0","0","0">>, <<"0","0","5","0">>, <<"0","0","9","9">>, <<"0","1","0","0">>,
    <<"1","9","0","0">>, <<"2","0","0","0">>, <<"2","0","2","3">>, <<"2","0","2","4">>,
    <<"2","1","0","0">>, <<"9","9","9","9">> }

DateNames == { <<"b","e","f","o","r","e">>, <<"a","f","t","e","r">> }

\* values that are not of the form YYYY-MM-DD
MalformedDates ==
  { <<"2","0","2","4","-","1","-","1","5">>,
    <<"2","4","-","0","1","-","1","5">>,
    <<"2","0","2","4","-","0","1","-","1","5","x">>,
    <<"2","0","2","4","/","0","1","/","1","5">>,
    <<"2","0","2","4","-","0","1","-","1","a">>,
    <<"2","0","2","4","0","1","1","5">>,
    <<"2","0","2","4","-","0","1","-","1","5","-">>,
    <<"x","2","0","2","4","-","0","1","-","1","5">>,
    <<"2","0","2","4","-","0","1","-","1","5","0">>,
    <<"n","o","t","-","a","-","d","a","t","e">>,
    <<"2","0","2","4","-","0","a","-","1","5">>,
    <<"+","0","2","4","-","0","1","-","1","5">> }

\* two decimal digits of n
pad2(n) == <<DigitChars[(n \div 10) + 1], DigitChars[(n % 10) + 1]>>

Signs == { <<>>, <<"-">> }

\* the handles of the parser tests
HandleExamples ==
  { <<"f","r","o","m",":","@","a","l","i","c","e","@","e","x","a","m","p","l","e",".","c","o","m">>,
    <<"m","e","n","t","i","o","n","s",":","@","B","o","b","@","E","x","a","m","p","l","e",".","C","O","M">> }

IsHandleQuery(q) ==
  \/ \E sign \in Signs, name \in HandleNames, n \in 1..MaxHandleLen :
       \E value \in [1..n -> HandleChars] : q = sign \o name \o <<":">> \o value
  \/ q \in HandleExamples

IsDateQuery(q) ==
  \E sign \in Signs, name \in DateNames :
    \/ \E y \in Years, m \in 0..13, d \in 0..32 :
         q = sign \o name \o <<":">> \o y \o <<"-">> \o pad2(m) \o <<"-">> \o pad2(d)
    \/ \E value \in MalformedDates : q = sign \o name \o <<":">> \o value

OperatorInit ==
  /\ IsHandleQuery(query) \/ IsDateQuery(query)
  /\ stage = "input"
  /\ tokens = <<>>
  /\ ast = Null
  /\ Idle

OperatorSpec == OperatorInit /\ [][Next]_vars

(***************************************************************************)
(* The status search of /api/v2/search on one posts row                    *)
(***************************************************************************)
MaxOverrides == 2

SearchTerms ==
  { <<"h","e","l","l","o">>,
    <<"H","E","L","L","O">>,
    <<"5","0","%">>,
    <<"a","_","b">>,
    <<"a","\\","b">>,
    <<"\\","%">>,
    <<"h","a","s",":","m","e","d","i","a">>,
    <<"h","a","s",":","p","o","l","l">>,
    <<"i","s",":","r","e","p","l","y">>,
    <<"i","s",":","s","e","n","s","i","t","i","v","e">>,
    <<"l","a","n","g","u","a","g","e",":","e","n">>,
    <<"l","a","n","g","u","a","g","e",":","K","O">>,
    <<"f","r","o","m",":","a","l","i">>,
    <<"f","r","o","m",":","@","a","l","i">>,
    <<"f","r","o","m",":","a","l","i","@","a",".","i","o">>,
    <<"f","r","o","m",":","@","a","l","i","@","a",".","i","o">>,
    <<"f","r","o","m",":","a","l","_">>,
    <<"f","r","o","m",":","a","%">>,
    <<"f","r","o","m",":","b","o","b">>,
    <<"m","e","n","t","i","o","n","s",":","b","o","b">>,
    <<"m","e","n","t","i","o","n","s",":","b","o","b","@","a",".","i","o">>,
    <<"m","e","n","t","i","o","n","s",":","a","l","i">>,
    <<"m","e","n","t","i","o","n","s",":","@","b","o","b">>,
    <<"m","e","n","t","i","o","n","s",":","a","l","i","@","b",".","i","o">>,
    <<"m","e","n","t","i","o","n","s",":","a","l","_">>,
    <<"m","e","n","t","i","o","n","s",":","a","%">>,
    <<"b","e","f","o","r","e",":","2","0","2","4","-","0","1","-","1","5">>,
    <<"a","f","t","e","r",":","2","0","2","4","-","0","1","-","1","5">>,
    <<"b","e","f","o","r","e",":","2","0","2","4","-","0","1","-","0","1">>,
    <<"a","f","t","e","r",":","2","0","2","4","-","0","1","-","0","1">>,
    <<"b","e","f","o","r","e",":","2","0","2","4","-","0","2","-","2","9">>,
    <<"a","f","t","e","r",":","2","0","2","4","-","0","2","-","2","9">>,
    <<"b","e","f","o","r","e",":","1","9","7","0","-","0","1","-","0","1">>, <<"a","f","t","e","r",":","1","9","7","0","-","0","1","-","0","1">>,
    <<"b","e","f","o","r","e",":","2","0","0","0","-","0","3","-","0","1">>, <<"a","f","t","e","r",":","2","0","0","0","-","0","3","-","0","1">> }

SearchExamples ==
  { <<>>,
    <<"(",")">>,
    <<"h","a","s",":","m","e","d","i","a"," ","O","R"," ","h","a","s",":","p","o","l","l">>,
    <<"f","r","o","m",":","a","l","i"," ","h","a","s",":","m","e","d","i","a">>,
    <<"(","f","r","o","m",":","a","l","i"," ","O","R"," ","f","r","o","m",":","b","o","b",")"," ","h","a","s",":","p","o","l","l">>,
    <<"(","h","a","s",":","m","e","d","i","a"," ","O","R"," ","h","a","s",":","p","o","l","l",")"," ","l","a","n","g","u","a","g","e",":","e","n"," ","-","i","s",":","s","e","n","s","i","t","i","v","e"," ","a","f","t","e","r",":","2","0","2","4","-","0","1","-","0","1">>,
    <<"a","f","t","e","r",":","2","0","2","4","-","0","1","-","0","1"," ","b","e","f","o","r","e",":","2","0","2","4","-","0","1","-","1","5">>,
    <<"h","e","l","l","o"," ","f","r","o","m",":","a","l","i"," ","-","i","s",":","s","e","n","s","i","t","i","v","e">>,
    <<"h","t","t","p","s",":","/","/","a",".","i","o","/","1">>,
    <<" ","h","t","t","p",":","/","/","a",".","i","o","/","1">>,
    <<"h","t","t","p",":","a">> }

IsSearchQuery(q) ==
  \/ \E t \in SearchTerms : q = t \/ q = <<"-">> \o t
  \/ q \in SearchExamples

Fields ==
  { "contentHtml", "accountId", "language", "sensitive", "pollId", "replyTargetId",
    "media", "mentions", "published", "sharingId" }

\* a posts row as the tests' createTestPost inserts it, authored by account 1
BasePost ==
  [ contentHtml |-> Some(<<"<","p",">","H","e","l","l","o","<","/","p",">">>),
    accountId |-> Some(1),
    language |-> Some(<<"e","n">>),
    sensitive |-> Some(FALSE),
    pollId |-> NULL,
    replyTargetId |-> NULL,
    media |-> 0,
    mentions |-> {},
    published |-> Some([day |-> 19737, ms |-> 0]),
    sharingId |-> NULL ]

\* the values a test may override a column with
Alternatives ==
  [ contentHtml |-> << NULL, Some(<<"5","0","%">>), Some(<<"5","0","0">>), Some(<<"a","_","b">>), Some(<<"a","x","b">>), Some(<<"a","\\","b">>), Some(<<"a","b">>), Some(<<"<","P",">","H","E","L","L","O","<","/","P",">">>) >>,
    accountId |-> << Some(2), Some(3), Some(4) >>,
    language |-> << NULL, Some(<<"k","o">>) >>,
    sensitive |-> << Some(TRUE) >>,
    pollId |-> << Some(1) >>,
    replyTargetId |-> << Some(1) >>,
    media |-> << 1 >>,
    mentions |-> << {4}, {1, 3} >>,
    published |-> << NULL, Some([day |-> 19736, ms |-> 86399999]),
                     Some([day |-> 19737, ms |-> 1]), Some([day |-> 19723, ms |-> 0]),
                     Some([day |-> 19782, ms |-> 0]), Some([day |-> 19722, ms |-> 43200000]),
                     Some([day |-> 0, ms |-> 0]), Some([day |-> 11016, ms |-> 86399999]) >>,
    sharingId |-> << Some(1) >> ]

\* row is BasePost with at most MaxOverrides columns overridden
IsPost(row) ==
  \E F \in SUBSET Fields :
    /\ Cardinality(F) <= MaxOverrides
    /\ \E c \in [F -> 1..8] :
         /\ \A f \in F : c[f] <= Len(Alternatives[f])
         /\ row = [f \in Fields |-> IF f \in F THEN Alternatives[f][c[f]] ELSE BasePost[f]]

SearchInit ==
  /\ IsSearchQuery(query)
  /\ IsPost(post)
  /\ accountId \in {NULL, Some(1)}
  /\ stage = "input"
  /\ tokens = <<>>
  /\ ast = Null
  /\ filter = Null
  /\ selected = FALSE
  /\ other = Null
  /\ pos = 0
  /\ stack = <<>>
  /\ ret = Null
  /\ threw = FALSE

\* q.startsWith(prefix)
startsWith(q, prefix) == Len(q) >= Len(prefix) /\ SubSeq(q, 1, Len(prefix)) = prefix

\* q.startsWith("http://") || q.startsWith("https://")
isUrlQuery(q) ==
  \/ startsWith(q, <<"h","t","t","p",":","/","/">>)
  \/ startsWith(q, <<"h","t","t","p","s",":","/","/">>)

\* a WHERE clause of the search filter alone
handlerFilterContentOnly(searchAst, account) ==
  LET searchFilter == IF searchAst # Null THEN buildSearchFilter(searchAst)
                      ELSE [op |-> "true"]
  IN IF account # NULL
     THEN sqlAnd(<<searchFilter, [op |-> "eq", column |-> "accountId", value |-> account[1]]>>)
     ELSE searchFilter

\* the WHERE clause the handler hands to findMany
handlerFilter(searchAst, account) ==
  LET searchFilter == IF searchAst # Null THEN buildSearchFilter(searchAst)
                      ELSE [op |-> "true"]
      base == sqlAnd(<<searchFilter, [op |-> "isNull", column |-> "sharingId"]>>)
  IN IF account # NULL
     THEN sqlAnd(<<base, [op |-> "eq", column |-> "accountId", value |-> account[1]]>>)
     ELSE base

\* the handler's content search: parse, build the filter, run findMany
Search ==
  /\ stage = "input"
  /\ ~isUrlQuery(trim(query))
  /\ stage' = "searched"
  /\ tokens' = IF Len(trim(query)) = 0 THEN <<>> ELSE tokenize(trim(query))
  /\ ast' = parseSearchQuery(query)
  /\ filter' = handlerFilter(ast', accountId)
  /\ selected' = selects(filter', post)
  /\ UNCHANGED <<query, post, accountId, other, pos, stack, ret, threw>>

\* a URL query skips the content search: the cache lookup has handled it
SkipUrl ==
  /\ stage = "input"
  /\ isUrlQuery(trim(query))
  /\ stage' = "skipped"
  /\ UNCHANGED <<query, tokens, ast, filter, post, accountId, selected, other, pos, stack, ret, threw>>

SearchNext == Search \/ SkipUrl

SearchSpec == SearchInit /\ [][SearchNext]_vars

(***************************************************************************)
(* The parser step by step: one frame per active call of parseOrExpr,      *)
(* parseAndExpr and parseTerm, innermost last.  A frame whose pc names a   *)
(* call is on top again exactly when that call has returned into ret.      *)
(* iterStart and iters of a parseAndExpr frame are history: the position   *)
(* at which the current iteration of its while loop began, and how many    *)
(* iterations have begun.                                                  *)
(***************************************************************************)
IsStepQuery(q) == IsFlatQuery(q, MaxStepLexemes) \/ q \in TreeQueriesOf(2)

ParseFrame == [fn |-> "parse"]

OrFrame == [fn |-> "parseOrExpr", pc |-> "enter", children |-> <<>>]

AndFrame(p) ==
  [fn |-> "parseAndExpr", pc |-> "loop", children |-> <<>>, iterStart |-> p, iters |-> 0]

TermFrame == [fn |-> "parseTerm", pc |-> "start", negated |-> FALSE]

Top == stack[Len(stack)]

Running(fn, pc) == stage = "parsing" /\ ~threw /\ Top.fn = fn /\ Top.pc = pc

Pop == SubSeq(stack, 1, Len(stack) - 1)

SetTop(frame) == [stack EXCEPT ![Len(stack)] = frame]

\* this.tokens[this.pos] is undefined outside the array and reading its
\* type is a TypeError
Readable(p) == p \in DOMAIN tokens

Throw ==
  /\ threw' = TRUE
  /\ UNCHANGED <<query, stage, tokens, ast, filter, post, accountId, selected, other, pos, stack, ret>>

StepInit ==
  /\ query = <<>>
  /\ stage = "idle"
  /\ tokens = <<>>
  /\ ast = Null
  /\ Idle

\* parseSearchQuery on query' up to the call of parser.parse()
StartCall ==
  /\ stage = "idle"
  /\ IF Len(trim(query')) = 0
     THEN /\ stage' = "parsed"
          /\ ast' = Null
          /\ UNCHANGED <<tokens, pos, stack>>
     ELSE /\ stage' = "parsing"
          /\ tokens' = tokenize(trim(query'))
          /\ pos' = 1
          /\ stack' = <<ParseFrame, OrFrame>>
          /\ ast' = ast
  /\ UNCHANGED <<filter, post, accountId, selected, other, ret, threw>>

\* a request arrives
Begin ==
  /\ stage = "idle"
  /\ IsStepQuery(query')
  /\ StartCall

\* parseOrExpr: const first = this.parseAndExpr()
OrEnter ==
  /\ Running("parseOrExpr", "enter")
  /\ stack' = Append(SetTop([Top EXCEPT !.pc = "first"]), AndFrame(pos))
  /\ UNCHANGED <<query, stage, tokens, ast, filter, post, accountId, selected, other, pos, ret, threw>>

\* parseOrExpr: if (first) children.push(first) / if (next) children.push(next)
OrPush ==
  /\ stage = "parsing" /\ ~threw
  /\ Top.fn = "parseOrExpr" /\ Top.pc \in {"first", "next"}
  /\ stack' = SetTop([Top EXCEPT !.pc = "loop",
                                 !.children = IF ret # Null THEN Append(@, ret) ELSE @])
  /\ UNCHANGED <<query, stage, tokens, ast, filter, post, accountId, selected, other, pos, ret, threw>>

\* parseOrExpr: the while test, then either consume OR and call
\* parseAndExpr or return
OrLoop ==
  /\ Running("parseOrExpr", "loop")
  /\ IF ~Readable(pos) THEN Throw
     ELSE IF peek(tokens, pos).type = "OR"
     THEN /\ pos' = advance(tokens, pos)
          /\ stack' = Append(SetTop([Top EXCEPT !.pc = "next"]),
                             AndFrame(advance(tokens, pos)))
          /\ UNCHANGED <<query, stage, tokens, ast, filter, post, accountId, selected, other, ret, threw>>
     ELSE /\ ret' = collect("or", Top.children)
          /\ stack' = Pop
          /\ UNCHANGED <<query, stage, tokens, ast, filter, post, accountId, selected, other, pos, threw>>

\* parseAndExpr: one pass through the head of the while (true) loop
AndLoop ==
  /\ Running("parseAndExpr", "loop")
  /\ IF ~Readable(pos) THEN Throw
     ELSE LET token == peek(tokens, pos)
          IN IF token.type = "OR" /\ Len(Top.children) > 0
             THEN /\ ret' = collect("and", Top.children)
                  /\ stack' = Pop
                  /\ UNCHANGED <<query, stage, tokens, ast, filter, post, accountId, selected, other, pos, threw>>
             ELSE IF token.type = "OR" /\ Len(Top.children) = 0
             THEN /\ pos' = advance(tokens, pos)
                  /\ stack' = SetTop([Top EXCEPT
                       !.children = Append(@, TermNode(TextOperator(<<"O", "R">>), FALSE)),
                       !.iterStart = pos, !.iters = @ + 1])
                  /\ UNCHANGED <<query, stage, tokens, ast, filter, post, accountId, selected, other, ret, threw>>
             ELSE IF token.type = "RPAREN" \/ token.type = "EOF"
             THEN /\ ret' = collect("and", Top.children)
                  /\ stack' = Pop
                  /\ UNCHANGED <<query, stage, tokens, ast, filter, post, accountId, selected, other, pos, threw>>
             ELSE /\ stack' = Append(SetTop([Top EXCEPT !.pc = "term", !.iterStart = pos,
                                                        !.iters = @ + 1]),
                                     TermFrame)
                  /\ UNCHANGED <<query, stage, tokens, ast, filter, post, accountId, selected, other, pos, ret,
                                 threw>>

\* parseAndExpr: if (term) children.push(term), back to the loop head
AndPush ==
  /\ Running("parseAndExpr", "term")
  /\ stack' = SetTop([Top EXCEPT !.pc = "loop",
                                 !.children = IF ret # Null THEN Append(@, ret) ELSE @])
  /\ UNCHANGED <<query, stage, tokens, ast, filter, post, accountId, selected, other, pos, ret, threw>>

\* parseTerm up to its first return or to the call of parseOrExpr
TermStart ==
  /\ Running("parseTerm", "start")
  /\ IF ~Readable(pos) THEN Throw
     ELSE LET negated == peek(tokens, pos).type = "NEGATION"
              p1 == IF negated THEN advance(tokens, pos) ELSE pos
          IN IF ~Readable(p1) THEN Throw
             ELSE LET token == peek(tokens, p1)
                  IN IF token.type = "LPAREN"
                     THEN /\ pos' = advance(tokens, p1)
                          /\ stack' = Append(SetTop([Top EXCEPT !.pc = "group",
                                                                !.negated = negated]),
                                             OrFrame)
                          /\ UNCHANGED <<query, stage, tokens, ast, filter, post, accountId, selected, other,
                                         ret, threw>>
                     ELSE /\ pos' = IF token.type \in {"OPERATOR", "QUOTED", "WORD"}
                                    THEN advance(tokens, p1) ELSE p1
                          /\ ret' = IF token.type = "OPERATOR"
                                    THEN TermNode(parseOperator(token.operatorName,
                                                                token.operatorValue,
                                                                token.value), negated)
                                    ELSE IF token.type \in {"QUOTED", "WORD"}
                                    THEN TermNode(TextOperator(token.value), negated)
                                    ELSE Null
                          /\ stack' = Pop
                          /\ UNCHANGED <<query, stage, tokens, ast, filter, post, accountId, selected, other,
                                         threw>>

\* parseTerm after the group's parseOrExpr returned
TermGroup ==
  /\ Running("parseTerm", "group")
  /\ IF ~Readable(pos) THEN Throw
     ELSE /\ pos' = IF peek(tokens, pos).type = "RPAREN" THEN advance(tokens, pos) ELSE pos
          /\ ret' = groupResult(ret, Top.negated)
          /\ stack' = Pop
          /\ UNCHANGED <<query, stage, tokens, ast, filter, post, accountId, selected, other, threw>>

\* Parser.parse after parseOrExpr returned, and parseSearchQuery's return
Finish ==
  /\ stage = "parsing" /\ ~threw
  /\ Top.fn = "parse"
  /\ ast' = IF ret # Null THEN simplify(ret) ELSE Null
  /\ stage' = "parsed"
  /\ stack' = <<>>
  /\ UNCHANGED <<query, tokens, filter, post, accountId, selected, other, pos, ret, threw>>

\* the steps of a call in progress
StepRun ==
  \/ OrEnter
  \/ OrPush
  \/ OrLoop
  \/ AndLoop
  \/ AndPush
  \/ TermStart
  \/ TermGroup
  \/ Finish

StepNext == Begin \/ StepRun

\* a call in progress keeps running: the parser is synchronous code
StepSpec == StepInit /\ [][StepNext]_vars /\ WF_vars(StepRun)

(***************************************************************************)
(* Two invocations of parseSearchQuery and buildSearchFilter, interleaved. *)
(* The variables hold the invocation that is running; other holds the one  *)
(* that is not: every invocation has its own tokens, Parser and results.   *)
(***************************************************************************)
ConcQueries ==
  { <<>>,
    <<"a">>,
    <<"a"," ","b">>,
    <<"a"," ","O","R"," ","b">>,
    <<"-","(","a"," ","O","R"," ","b",")">>,
    <<"(","a"," ","b",")"," ","O","R"," ","-","a">>,
    <<"(","a">>,
    <<"O","R"," ","b">>,
    <<"a"," ",")"," ","b">> }

\* an invocation that has not been called yet
Fresh ==
  [query |-> <<>>, stage |-> "idle", tokens |-> <<>>, ast |-> Null, filter |-> Null,
   pos |-> 0, stack |-> <<>>, ret |-> Null, threw |-> FALSE]

ConcInit ==
  /\ query = <<>>
  /\ stage = "idle"
  /\ tokens = <<>>
  /\ ast = Null
  /\ filter = Null
  /\ post = Null
  /\ accountId = NULL
  /\ selected = FALSE
  /\ other = Fresh
  /\ pos = 0
  /\ stack = <<>>
  /\ ret = Null
  /\ threw = FALSE

\* a caller invokes parseSearchQuery
Invoke ==
  /\ stage = "idle"
  /\ query' \in ConcQueries
  /\ StartCall

\* the caller goes on: if (ast) filter = buildSearchFilter(ast)
BuildFilter ==
  /\ stage = "parsed"
  /\ filter' = IF ast # Null THEN buildSearchFilter(ast) ELSE Null
  /\ stage' = "built"
  /\ UNCHANGED <<query, tokens, ast, post, accountId, selected, other, pos, stack, ret, threw>>

\* a switch that leaves the parser position where the running invocation
\* has it, as if pos were shared by all parsers
SwitchSharedPos ==
  /\ other' = [query |-> query, stage |-> stage, tokens |-> tokens, ast |-> ast,
               filter |-> filter, pos |-> pos, stack |-> stack, ret |-> ret,
               threw |-> threw]
  /\ query' = other.query
  /\ stage' = other.stage
  /\ tokens' = other.tokens
  /\ ast' = other.ast
  /\ filter' = other.filter
  /\ pos' = pos
  /\ stack' = other.stack
  /\ ret' = other.ret
  /\ threw' = other.threw
  /\ UNCHANGED <<post, accountId, selected>>

\* the other invocation runs next: its own query, tokens, Parser (tokens,
\* pos), call stack and results replace those of the running one
Switch ==
  /\ other' = [query |-> query, stage |-> stage, tokens |-> tokens, ast |-> ast,
               filter |-> filter, pos |-> pos, stack |-> stack, ret |-> ret,
               threw |-> threw]
  /\ query' = other.query
  /\ stage' = other.stage
  /\ tokens' = other.tokens
  /\ ast' = other.ast
  /\ filter' = other.filter
  /\ pos' = other.pos
  /\ stack' = other.stack
  /\ ret' = other.ret
  /\ threw' = other.threw
  /\ UNCHANGED <<post, accountId, selected>>

ConcNext == Invoke \/ StepRun \/ BuildFilter \/ Switch

ConcSpec == ConcInit /\ [][ConcNext]_vars

(***************************************************************************)
(* Properties of the stepwise parser                                       *)
(***************************************************************************)
\* the stepwise parser returns what the recursive descent returns
StepAgrees == stage = "parsed" => ast = parseSearchQuery(query)

IsNode(n) == n.type \in {"term", "and", "or"}

\* control is back at the head of a parseAndExpr loop after an iteration
AtLoopHeadAgain ==
  /\ stage = "parsing"
  /\ Top.fn = "parseAndExpr"
  /\ Top.pc = "loop"
  /\ Top.iters > 0

LoopConsumes == AtLoopHeadAgain => pos > Top.iterStart

Returned == stage = "parsed" /\ (ast = Null \/ IsNode(ast))

CountType(toks, type) == Cardinality({ i \in DOMAIN toks : toks[i].type = type })

Body(toks) == SubSeq(toks, 1, Len(toks) - 1)

IsTermType(type) == type \in {"WORD", "QUOTED", "OPERATOR"}

NegatedAt(toks, i) == i > 1 /\ toks[i - 1].type = "NEGATION"

\* the term a WORD, QUOTED or OPERATOR token stands for
TermOf(toks, i) ==
  TermNode(IF toks[i].type = "OPERATOR"
           THEN parseOperator(toks[i].operatorName, toks[i].operatorValue, toks[i].value)
           ELSE TextOperator(toks[i].value),
           NegatedAt(toks, i))

\* indices of the term tokens, in order
RECURSIVE TermPositionsFrom(_, _)
TermPositionsFrom(toks, i) ==
  IF i > Len(toks) THEN <<>>
  ELSE (IF IsTermType(toks[i].type) THEN <<i>> ELSE <<>>) \o TermPositionsFrom(toks, i + 1)

TermPositions(toks) == TermPositionsFrom(toks, 1)

\* every '-' stands directly before a term
NegationsWellPlaced(toks) ==
  \A i \in DOMAIN toks :
    toks[i].type = "NEGATION" => i < Len(toks) /\ IsTermType(toks[i + 1].type)

\* the term leaves of an AST, left to right
RECURSIVE Leaves(_)
Leaves(n) ==
  IF n = Null THEN <<>>
  ELSE IF n.type = "term" THEN <<n>>
  ELSE Flatten([i \in 1..Len(n.children) |-> Leaves(n.children[i])])

\* n >= 2 non-empty runs of terms separated by OR, no parentheses
PlainRuns(toks) ==
  /\ \A i \in DOMAIN toks : toks[i].type \in {"WORD", "QUOTED", "OPERATOR", "NEGATION", "OR"}
  /\ NegationsWellPlaced(toks)
  /\ \E i \in DOMAIN toks : toks[i].type = "OR"
  /\ \A i \in DOMAIN toks :
       toks[i].type = "OR" => i > 1 /\ i < Len(toks) /\ toks[i - 1].type # "OR"

RECURSIVE SplitRuns(_)
SplitRuns(toks) ==
  IF \E i \in DOMAIN toks : toks[i].type = "OR"
  THEN LET k == CHOOSE i \in DOMAIN toks :
                  toks[i].type = "OR" /\ \A j \in 1..(i - 1) : toks[j].type # "OR"
       IN <<SubSeq(toks, 1, k - 1)>> \o SplitRuns(SubSeq(toks, k + 1, Len(toks)))
  ELSE <<toks>>

RunNode(run) ==
  LET ps == TermPositions(run)
  IN IF Len(ps) = 1 THEN TermOf(run, ps[1])
     ELSE [type |-> "and", children |-> [k \in 1..Len(ps) |-> TermOf(run, ps[k])]]

\* C2: implicit AND binds tighter than OR: a parenthesis-free query of
\* n >= 2 non-empty runs of terms separated by OR yields one `or` node whose
\* i-th child is the i-th run (an `and` node for 2 or more terms)
C2_Precedence ==
  (stage = "parsed" /\ PlainRuns(Body(tokens))) =>
    LET runs == SplitRuns(Body(tokens))
    IN ast = [type |-> "or", children |-> [i \in 1..Len(runs) |-> RunNode(runs[i])]]

\* `a b OR ...` and `... OR b c` shapes have been parsed
C2_Witness ==
  /\ stage = "parsed"
  /\ PlainRuns(Body(tokens))
  /\ Len(SplitRuns(Body(tokens))) >= 3
  /\ ast.type = "or"
  /\ ast.children[Len(ast.children)].type = "and"

\* De Morgan's law on an AST
RECURSIVE Dual(_)
Dual(n) ==
  IF n = Null THEN Null
  ELSE IF n.type = "term" THEN TermNode(n.operator, ~n.negated)
  ELSE [type |-> IF n.type = "and" THEN "or" ELSE "and",
        children |-> [i \in 1..Len(n.children) |-> Dual(n.children[i])]]

RECURSIVE NegationOnLeaves(_)
NegationOnLeaves(n) ==
  IF n.type = "term" THEN DOMAIN n = {"type", "operator", "negated"} /\ n.negated \in BOOLEAN
  ELSE /\ DOMAIN n = {"type", "children"}
       /\ \A i \in 1..Len(n.children) : NegationOnLeaves(n.children[i])

Balanced(toks) ==
  /\ CountType(toks, "LPAREN") = CountType(toks, "RPAREN")
  /\ \A k \in 0..Len(toks) :
       CountType(SubSeq(toks, 1, k), "LPAREN") >= CountType(SubSeq(toks, 1, k), "RPAREN")

\* the whole query is one negated group: - ( G ) with G balanced
NegatedGroup(toks) ==
  /\ Len(toks) >= 4
  /\ toks[1].type = "NEGATION"
  /\ toks[2].type = "LPAREN"
  /\ toks[Len(toks) - 1].type = "RPAREN"
  /\ Balanced(SubSeq(toks, 3, Len(toks) - 2))

Words == { <<"a">>, <<"b">> }

\* C3: a negated group is rewritten by De Morgan's law, recursively:
\* -(G) yields the dual of the AST of (G), `-(x OR y)` the AST of `-x -y`,
\* `-(x y)` the AST of `-x OR -y`, and negation sits on term leaves only
C3_DeMorgan ==
  stage = "parsed" =>
    /\ ast # Null => NegationOnLeaves(ast)
    /\ NegatedGroup(tokens) => ast = Dual(parse(Tail(tokens)))
    /\ \A x \in Words, y \in Words :
         /\ query = <<"-", "(">> \o x \o <<" ", "O", "R", " ">> \o y \o <<")">>
              => ast = parseSearchQuery(<<"-">> \o x \o <<" ", "-">> \o y)
         /\ query = <<"-", "(">> \o x \o <<" ">> \o y \o <<")">>
              => ast = parseSearchQuery(<<"-">> \o x \o <<" ", "O", "R", " ", "-">> \o y)

\* a negated group holding a nested group has been parsed
C3_Witness ==
  /\ stage = "parsed"
  /\ NegatedGroup(tokens)
  /\ ast # Null
  /\ ast.type \in {"and", "or"}
  /\ \E i \in 1..Len(ast.children) : ast.children[i].type \in {"and", "or"}

RECURSIVE IsSimplified(_)
IsSimplified(n) ==
  IF n.type = "term" THEN TRUE
  ELSE /\ n.type \in {"and", "or"}
       /\ Len(n.children) >= 2
       /\ \A i \in 1..Len(n.children) :
            /\ n.children[i] # Null
            /\ n.children[i].type # n.type
            /\ IsSimplified(n.children[i])

\* C4: every returned AST is simplified: and/or nodes have at least two
\* children and no child of their own type
C4_Simplified == (stage = "parsed" /\ ast # Null) => IsSimplified(ast)

\* a query with a negated group, an empty group and nested groups of the
\* parent's type has been parsed
C4_Witness ==
  /\ stage = "parsed"
  /\ ast # Null
  /\ ast.type = "and"
  /\ \E i \in 1..Len(ast.children) : ast.children[i].type = "or"
  /\ \E i \in DOMAIN tokens : tokens[i].type = "NEGATION" /\ tokens[i + 1].type = "LPAREN"
  /\ \E i \in DOMAIN tokens : tokens[i].type = "LPAREN" /\ tokens[i + 1].type = "RPAREN"
  /\ Len(ast.children) >= 5

OnlyGroupsAndSpace(q) == \A i \in DOMAIN q : isWhitespace(q[i]) \/ isSpecial(q[i])

\* C5: a query made only of whitespace and (empty) parenthesis groups
\* yields null
C5_NullLaw == (stage = "parsed" /\ OnlyGroupsAndSpace(query)) => ast = Null

\* `() () ()` has been parsed
C5_Witness ==
  /\ stage = "parsed"
  /\ query = <<"(", ")", " ", "(", ")", " ", "(", ")">>
  /\ ast = Null

ValidDateValues ==
  { <<"2","0","2","4","-","0","1","-","1","5">>,
    <<"2","0","2","4","-","0","2","-","2","9">>,
    <<"2","0","2","4","-","0","1","-","0","1">> }

\* an operator token the documentation calls invalid
FailsValidation(tok) ==
  /\ tok.type = "OPERATOR"
  /\ \/ /\ tok.operatorName = <<"h","a","s">>
        /\ tok.operatorValue \notin { <<"m","e","d","i","a">>, <<"p","o","l","l">> }
     \/ /\ tok.operatorName = <<"i","s">>
        /\ tok.operatorValue \notin { <<"r","e","p","l","y">>,
                                      <<"s","e","n","s","i","t","i","v","e">> }
     \/ /\ tok.operatorName \in { <<"b","e","f","o","r","e">>, <<"a","f","t","e","r">> }
        /\ tok.operatorValue \notin ValidDateValues
     \/ tok.operatorName \notin
          { <<"h","a","s">>, <<"i","s">>, <<"l","a","n","g","u","a","g","e">>,
            <<"f","r","o","m">>, <<"m","e","n","t","i","o","n","s">>,
            <<"b","e","f","o","r","e">>, <<"a","f","t","e","r">> }

OnlyTerms(toks) ==
  /\ \A i \in DOMAIN toks : toks[i].type \in {"WORD", "QUOTED", "OPERATOR", "NEGATION"}
  /\ NegationsWellPlaced(toks)

\* C6: an operator token that fails validation yields exactly one text
\* term holding the original unsplit token text, negated iff a '-' precedes
C6_Fallback ==
  /\ (stage = "parsed" /\ OnlyTerms(Body(tokens))) =>
       LET body == Body(tokens)
           ps == TermPositions(body)
           ls == Leaves(ast)
       IN /\ Len(ls) = Len(ps)
          /\ \A k \in 1..Len(ps) :
               FailsValidation(body[ps[k]]) =>
                 ls[k] = TermNode(TextOperator(body[ps[k]].value), NegatedAt(body, ps[k]))
  /\ (stage = "parsed" /\ query = <<"-","A","F","T","E","R",":","2","0","2","4","-","0","2","-","3","0">>)
       => ast = TermNode(TextOperator(<<"A","F","T","E","R",":","2","0","2","4","-","0","2","-","3","0">>),
                         TRUE)
  /\ (stage = "parsed" /\ query = <<"h","a","s",":","i","n","v","a","l","i","d">>)
       => ast = TermNode(TextOperator(<<"h","a","s",":","i","n","v","a","l","i","d">>), FALSE)

\* a negated before: with an impossible date has been parsed before a word
C6_Witness ==
  /\ stage = "parsed"
  /\ OnlyTerms(Body(tokens))
  /\ Len(tokens) >= 4
  /\ \E i \in DOMAIN tokens :
       /\ FailsValidation(tokens[i])
       /\ tokens[i].operatorName = <<"b","e","f","o","r","e">>
       /\ tokens[i].operatorValue = <<"2","0","2","4","-","0","2","-","3","0">>
       /\ NegatedAt(tokens, i)


(***************************************************************************)
(* Compiled terms against rows                                             *)
(***************************************************************************)
\* the row passes the conjuncts the handler adds to the search filter
Listed ==
  /\ post.sharingId = NULL
  /\ accountId # NULL => accountId = post.accountId

\* the search has run a single term of the given operator type, un-negated
SearchedTerm(type) ==
  /\ stage = "searched"
  /\ ast # Null
  /\ ast.type = "term"
  /\ ~ast.negated
  /\ ast.operator.type = type

\* the outcome of the same request with another query string
SelectedBy(q) == selects(handlerFilter(parseSearchQuery(q), accountId), post)

\* C7: the filter of a negated term -X selects a listed post exactly when
\* the filter of X does not select it, whatever columns of the post are null.
C7_NegationComplement ==
  (/\ stage = "searched"
   /\ query # <<>>
   /\ Head(query) = "-"
   /\ ast # Null
   /\ ast.type = "term"
   /\ ast.negated
   /\ Listed)
  => (selected <=> ~SelectedBy(Tail(query)))

\* handle is @value exactly, or @value@<domain> with the username exactly value
ExactFrom(value, handle) ==
  IF includes(value, "@")
  THEN handle = <<"@">> \o value
  ELSE /\ Len(handle) >= Len(value) + 2
       /\ SubSeq(handle, 1, Len(value) + 2) = <<"@">> \o value \o <<"@">>

\* C8: from:V selects a listed post iff its author's handle is @V exactly
\* (V with a domain) or @V@<domain> with the username exactly V.
C8_FromExact ==
  (SearchedTerm("from") /\ Listed)
  => (selected <=> ExactFrom(ast.operator.value, Accounts[post.accountId[1]]))

\* str contains value as a substring, ignoring case
ContainsIgnoreCase(str, value) ==
  \E i \in 1..(Len(str) + 1) :
    /\ i + Len(value) - 1 <= Len(str)
    /\ toLowerCase(SubSeq(str, i, i + Len(value) - 1)) = toLowerCase(value)

\* C9: a text term selects a listed post iff its content contains the value
\* as a literal substring, ignoring case, whatever characters the value has.
C9_TextLiteral ==
  (SearchedTerm("text") /\ Listed)
  => (selected <=> (/\ post.contentHtml # NULL
                    /\ ContainsIgnoreCase(post.contentHtml[1], ast.operator.value)))

\* days from 1970-01-01 to the dates searched for, from the calendar
EpochDay(value) ==
  CASE value = <<"2","0","2","4","-","0","1","-","1","5">> -> 19737
    [] value = <<"2","0","2","4","-","0","1","-","0","1">> -> 19723
    [] value = <<"2","0","2","4","-","0","2","-","2","9">> -> 19782
    [] value = <<"1","9","7","0","-","0","1","-","0","1">> -> 0
    [] value = <<"2","0","0","0","-","0","3","-","0","1">> -> 11017

\* C10: before:D selects a listed post iff it was published strictly before
\* D 00:00:00 UTC, after:D iff at or after it; a post with a published
\* timestamp is selected by exactly one of the two.
C10_DateBoundaries ==
  (stage = "searched" /\ (SearchedTerm("before") \/ SearchedTerm("after")) /\ Listed)
  => LET D == [day |-> EpochDay(ast.operator.value), ms |-> 0]
         earlier == post.published # NULL /\ timeLt(post.published[1], D)
         atOrAfter == post.published # NULL /\ ~timeLt(post.published[1], D)
     IN /\ ast.operator.type = "before" => (selected <=> earlier)
        /\ ast.operator.type = "after" => (selected <=> atOrAfter)
        /\ post.published # NULL =>
             (SelectedBy(<<"b","e","f","o","r","e",":">> \o ast.operator.value)
                # SelectedBy(<<"a","f","t","e","r",":">> \o ast.operator.value))

\* a post published at 2024-01-15 00:00:00 UTC, found by after:2024-01-15 only
C10_Witness ==
  /\ stage = "searched"
  /\ query = <<"a","f","t","e","r",":","2","0","2","4","-","0","1","-","1","5">>
  /\ Listed
  /\ post.published = Some([day |-> 19737, ms |-> 0])
  /\ selected
  /\ ~SelectedBy(<<"b","e","f","o","r","e",":","2","0","2","4","-","0","1","-","1","5">>)

(***************************************************************************)
(* from: / mentions: values                                                *)
(***************************************************************************)
\* the parsed query is one from: or mentions: word, possibly negated
HandleParsed ==
  /\ stage = "parsed"
  /\ Len(tokens) >= 2
  /\ tokens[Len(tokens) - 1].type = "OPERATOR"
  /\ tokens[Len(tokens) - 1].operatorName
       \in { <<"f","r","o","m">>, <<"m","e","n","t","i","o","n","s">> }

HandleToken == tokens[Len(tokens) - 1]

\* the same query with an @ put in front of the value
WithAt(q) ==
  LET colon == indexOf(q, ":")
  IN SubSeq(q, 1, colon) \o <<"@">> \o SubSeq(q, colon + 1, Len(q))

\* C11: from: and mentions: accept every value, strip exactly one leading @
\* and leave the rest unchanged; from:@X and from:X parse to the same AST
\* when X does not start with @.
C11_StripOneAt ==
  /\ HandleParsed =>
       LET value == HandleToken.operatorValue
           type == IF HandleToken.operatorName = <<"f","r","o","m">> THEN "from"
                   ELSE "mentions"
       IN /\ ast = TermNode([type |-> type,
                             value |-> IF value[1] = "@" THEN Tail(value) ELSE value],
                            Head(query) = "-")
          /\ value[1] # "@" => parseSearchQuery(WithAt(query)) = ast
  /\ (stage = "parsed" /\ query = <<"f","r","o","m",":","@","a","l","i","c","e","@","e","x","a","m","p","l","e",".","c","o","m">>) =>
       ast = TermNode([type |-> "from", value |-> <<"a","l","i","c","e","@","e","x","a","m","p","l","e",".","c","o","m">>], FALSE)

\* from:@@aB has been parsed to the value @aB
C11_Witness ==
  /\ HandleParsed
  /\ HandleToken.operatorValue = <<"@", "@", "a", "B">>
  /\ ast.operator = [type |-> "from", value |-> <<"@", "a", "B">>]

(***************************************************************************)
(* before: / after: values                                                 *)
(***************************************************************************)
\* the parsed query is one before: or after: word, possibly negated
DateParsed ==
  /\ stage = "parsed"
  /\ Len(tokens) >= 2
  /\ tokens[Len(tokens) - 1].type = "OPERATOR"
  /\ tokens[Len(tokens) - 1].operatorName
       \in { <<"b","e","f","o","r","e">>, <<"a","f","t","e","r">> }

DateToken == tokens[Len(tokens) - 1]

\* four digits, a dash, two digits, a dash, two digits
StrictForm(value) ==
  /\ Len(value) = 10
  /\ \A i \in 1..10 : IF i \in {5, 8} THEN value[i] = "-" ELSE isDigit(value[i])

\* length of month m of year y in the Gregorian calendar
CalendarDays(y, m) ==
  CASE m \in {4, 6, 9, 11} -> 30
    [] m = 2 -> IF y % 400 = 0 \/ (y % 4 = 0 /\ y % 100 # 0) THEN 29 ELSE 28
    [] OTHER -> 31

\* a value of the strict form names a day that exists
ExistingDate(value) ==
  LET y == 1000 * digitValue(value[1]) + 100 * digitValue(value[2])
             + 10 * digitValue(value[3]) + digitValue(value[4])
      m == 10 * digitValue(value[6]) + digitValue(value[7])
      d == 10 * digitValue(value[9]) + digitValue(value[10])
  IN m \in 1..12 /\ d \in 1..CalendarDays(y, m)

\* C12: a before: / after: value is accepted as a date operator iff it has
\* the form YYYY-MM-DD and names an existing calendar date, for every
\* four-digit year; any other value gives a text term of the whole word.
C12_DateValidation ==
  DateParsed =>
    LET value == DateToken.operatorValue
        type == IF DateToken.operatorName = <<"b","e","f","o","r","e">> THEN "before"
                ELSE "after"
    IN IF StrictForm(value) /\ ExistingDate(value)
       THEN ast = TermNode([type |-> type, value |-> value], Head(query) = "-")
       ELSE ast = TermNode(TextOperator(DateToken.value), Head(query) = "-")

(***************************************************************************)
(* Simplification again                                                    *)
(***************************************************************************)
\* C13: simplifying an AST returned by parseSearchQuery once more returns
\* a structurally equal AST.
C13_Idempotent == (stage = "parsed" /\ ast # Null) => simplify(ast) = ast

\* ((a b) c) d was flattened from three nested and-nodes to one of four terms
C13_Witness ==
  /\ stage = "parsed"
  /\ ast # Null
  /\ ast.type = "and"
  /\ Len(ast.children) = 4
  /\ CountType(tokens, "LPAREN") = 2
  /\ parseOrExpr(tokens, 1).node # ast

(***************************************************************************)
(* The handler's mandatory filter                                          *)
(***************************************************************************)
\* C14: the content search parses the query; a null result applies no
\* content filter, any other result applies buildSearchFilter(ast); either
\* way the filter is ANDed with sharingId IS NULL, so a shared post is never
\* returned.
C14_NoSharedPosts ==
  stage = "searched" =>
    /\ ast = parseSearchQuery(query)
    /\ selected => post.sharingId = NULL
    /\ ast = Null => (selected <=> Listed)
    /\ ast # Null => (selected <=> (Listed /\ selects(buildSearchFilter(ast), post)))

\* a shared post whose content matches the query hello was not returned
C14_Witness ==
  /\ stage = "searched"
  /\ query = <<"h","e","l","l","o">>
  /\ post.sharingId # NULL
  /\ selects(buildSearchFilter(ast), post)
  /\ ~selected

(***************************************************************************)
(* Invocations do not share state                                          *)
(***************************************************************************)
\* the result an invocation has when it ran alone on q
Alone(q) ==
  LET a == parseSearchQuery(q)
  IN [ast |-> a, filter |-> IF a # Null THEN buildSearchFilter(a) ELSE Null]

\* an invocation in state c has the results of a run alone, so far as it got
AsAlone(c) ==
  /\ ~c.threw
  /\ c.stage \in {"parsed", "built"} => c.ast = Alone(c.query).ast
  /\ c.stage = "built" => c.filter = Alone(c.query).filter

Running1 ==
  [query |-> query, stage |-> stage, tokens |-> tokens, ast |-> ast, filter |-> filter,
   pos |-> pos, stack |-> stack, ret |-> ret, threw |-> threw]

\* C15: under any interleaving of two invocations each returns what it
\* returns when run alone on its input, and invocations on equal inputs
\* return structurally equal results.
C15_NoSharedState ==
  /\ AsAlone(Running1)
  /\ AsAlone(other)
  /\ (stage = "built" /\ other.stage = "built" /\ query = other.query)
       => (ast = other.ast /\ filter = other.filter)

\* both invocations are in the middle of parsing different queries
C15_Witness ==
  /\ stage = "parsing"
  /\ other.stage = "parsing"
  /\ Len(stack) > 2
  /\ Len(other.stack) > 2
  /\ pos > 1
  /\ other.pos > pos
  /\ query # other.query

(***************************************************************************)
(* OR as a separator and OR as text                                        *)
(***************************************************************************)
\* One pass over the tokens that tells, for every OR, whether the AND-run
\* it is met in already holds a term ("sep") or is still empty ("text").
\* levels has one entry per open group, the innermost last: has says that
\* the current run holds a term, any that the group holds one at all.
RECURSIVE OrKindsFrom(_, _, _)
OrKindsFrom(toks, i, levels) ==
  IF i > Len(toks) THEN <<>>
  ELSE
    LET type == toks[i].type
        n == Len(levels)
        top == levels[n]
        rest == [j \in 1..(Len(toks) - i) |-> "keep"]
    IN CASE type = "OR" /\ top.has ->
              <<"sep">> \o OrKindsFrom(toks, i + 1, [levels EXCEPT ![n].has = FALSE])
         [] type = "OR" /\ ~top.has ->
              <<"text">> \o OrKindsFrom(toks, i + 1,
                                        [levels EXCEPT ![n] = [has |-> TRUE, any |-> TRUE]])
         [] IsTermType(type) ->
              <<"keep">> \o OrKindsFrom(toks, i + 1,
                                        [levels EXCEPT ![n] = [has |-> TRUE, any |-> TRUE]])
         [] type = "LPAREN" ->
              <<"keep">> \o OrKindsFrom(toks, i + 1,
                                        Append(levels, [has |-> FALSE, any |-> FALSE]))
         [] type = "RPAREN" /\ n > 1 ->
              <<"keep">> \o OrKindsFrom(toks, i + 1,
                   [SubSeq(levels, 1, n - 1) EXCEPT
                      ![n - 1] = [has |-> @.has \/ top.any, any |-> @.any \/ top.any]])
         [] type = "RPAREN" /\ n = 1 -> <<"keep">> \o rest
         [] OTHER -> <<"keep">> \o OrKindsFrom(toks, i + 1, levels)

OrKinds(toks) == OrKindsFrom(toks, 1, <<[has |-> FALSE, any |-> FALSE]>>)

\* the first token after i that is not a '-'
RECURSIVE AfterNegations(_, _)
AfterNegations(toks, i) ==
  IF i < Len(toks) /\ toks[i + 1].type = "NEGATION" THEN AfterNegations(toks, i + 1)
  ELSE i + 1

\* the tokens with every text OR written as the word OR, and without the
\* '-' signs that stand directly before a text OR
OrAsWord(toks) ==
  LET kinds == OrKinds(toks)
  IN Flatten([i \in 1..Len(toks) |->
       IF kinds[i] = "text" THEN <<[type |-> "WORD", value |-> <<"O", "R">>]>>
       ELSE IF /\ toks[i].type = "NEGATION"
               /\ AfterNegations(toks, i) <= Len(toks)
               /\ kinds[AfterNegations(toks, i)] = "text"
       THEN <<>>
       ELSE <<toks[i]>>])

\* no parentheses, every '-' directly before a term
PlainTokens(toks) ==
  /\ toks # <<>>
  /\ \A i \in DOMAIN toks : toks[i].type \in {"WORD", "QUOTED", "OPERATOR", "NEGATION", "OR"}
  /\ NegationsWellPlaced(toks)

\* the or of the non-empty runs between the ORs that are left
RunsNode(toks) ==
  LET runs == SelectSeq(SplitRuns(toks), LAMBDA run : TermPositions(run) # <<>>)
  IN IF Len(runs) = 1 THEN RunNode(runs[1])
     ELSE [type |-> "or", children |-> [i \in 1..Len(runs) |-> RunNode(runs[i])]]

TextOR == TermNode(TextOperator(<<"O", "R">>), FALSE)

\* C16: an OR token separates only when the current AND-run already holds
\* a term; met on an empty run it is the un-negated text term OR and joins
\* the run; lowercase or is a plain word.
C16_OrAsText ==
  /\ (stage = "parsed" /\ tokens # <<>>) => parse(OrAsWord(tokens)) = ast
  /\ (stage = "parsed" /\ PlainTokens(Body(tokens)))
       => ast = RunsNode(OrAsWord(Body(tokens)))
  /\ (stage = "parsed" /\ query = <<"O", "R">>) => ast = TextOR
  /\ (stage = "parsed" /\ query = <<"a"," ","O","R"," ","O","R"," ","b">>) =>
       ast
       = [type |-> "or",
          children |-> <<TermNode(TextOperator(<<"a">>), FALSE),
                         [type |-> "and",
                          children |-> <<TextOR, TermNode(TextOperator(<<"b">>), FALSE)>>]>>]
  /\ (stage = "parsed" /\ query = <<"a"," ","o","r"," ","b">>) =>
       ast
       = [type |-> "and",
          children |-> <<TermNode(TextOperator(<<"a">>), FALSE),
                         TermNode(TextOperator(<<"o", "r">>), FALSE),
                         TermNode(TextOperator(<<"b">>), FALSE)>>]

\* ( OR a) OR b: the OR after the parenthesis is text, the second separates
C16_Witness ==
  /\ stage = "parsed"
  /\ Len(tokens) >= 6
  /\ tokens[1].type = "LPAREN"
  /\ OrKinds(tokens)[2] = "text"
  /\ \E i \in DOMAIN tokens : OrKinds(tokens)[i] = "sep"
  /\ ast.type = "or"
  /\ ast.children[1] = [type |-> "and",
                        children |-> <<TextOR, TermNode(TextOperator(<<"a">>), FALSE)>>]

(***************************************************************************)
(* Unclosed groups                                                         *)
(***************************************************************************)
\* number of "(" tokens still open after token i, given d open before it;
\* a ")" with nothing open closes nothing
RECURSIVE OpenFrom(_, _, _)
OpenFrom(toks, i, d) ==
  IF i > Len(toks) THEN d
  ELSE IF toks[i].type = "LPAREN" THEN OpenFrom(toks, i + 1, d + 1)
  ELSE IF toks[i].type = "RPAREN" /\ d > 0 THEN OpenFrom(toks, i + 1, d - 1)
  ELSE OpenFrom(toks, i + 1, d)

\* the "(" tokens without a matching ")"
Unclosed(toks) == OpenFrom(toks, 1, 0)

Repeat(x, n) == [i \in 1..n |-> x]

\* C17 as stated: appending the missing ")" characters to an input with
\* unclosed groups yields a structurally equal AST.
C17_CloseAtEnd ==
  (stage = "parsed" /\ Unclosed(tokens) > 0)
    => parseSearchQuery(query \o Repeat(")", Unclosed(tokens))) = ast

\* C17, amended: appending the missing ")" tokens to the token stream of an
\* input with unclosed groups yields a structurally equal AST.
C17_CloseTokens ==
  (stage = "parsed" /\ Unclosed(tokens) > 0)
    => parse(Body(tokens)
             \o Repeat([type |-> "RPAREN", value |-> <<")">>], Unclosed(tokens))
             \o <<tokens[Len(tokens)]>>) = ast

\* ((a OR b with both groups left open has been parsed to an or node
C17_Witness ==
  /\ stage = "parsed"
  /\ Unclosed(tokens) = 2
  /\ CountType(tokens, "RPAREN") = 0
  /\ ast # Null
  /\ ast.type = "or"

(***************************************************************************)
(* Empty groups                                                            *)
(***************************************************************************)
\* the tokens with an empty group put in before token p
WithEmptyGroup(toks, p) ==
  SubSeq(toks, 1, p - 1)
    \o <<[type |-> "LPAREN", value |-> <<"(">>], [type |-> "RPAREN", value |-> <<")">>]>>
    \o SubSeq(toks, p, Len(toks))

\* C18: an empty group parses to nothing and leaves its siblings alone:
\* put in anywhere but directly after a '-', it does not change the AST;
\* `() hello` is the term hello.
C18_EmptyGroupDropped ==
  /\ (stage = "parsed" /\ tokens # <<>>) =>
       \A p \in DOMAIN tokens :
         (p = 1 \/ tokens[p - 1].type # "NEGATION")
           => parse(WithEmptyGroup(tokens, p)) = ast
  /\ (stage = "parsed" /\ query = <<"(",")"," ","h","e","l","l","o">>) => ast = TermNode(TextOperator(<<"h","e","l","l","o">>), FALSE)

\* an empty group between two terms left an and node of the two terms
C18_Witness ==
  /\ stage = "parsed"
  /\ ast # Null
  /\ ast.type = "and"
  /\ Len(ast.children) = 2
  /\ \E i \in DOMAIN tokens :
       /\ i > 1 /\ i + 2 <= Len(tokens)
       /\ IsTermType(tokens[i - 1].type)
       /\ tokens[i].type = "LPAREN"
       /\ tokens[i + 1].type = "RPAREN"
       /\ IsTermType(tokens[i + 2].type)

(***************************************************************************)
(* Trailing OR                                                             *)
(***************************************************************************)
\* a separating OR with ")" or the end of input directly after it
TrailingOr(toks, i) ==
  /\ toks[i].type = "OR"
  /\ OrKinds(toks)[i] = "sep"
  /\ i < Len(toks)
  /\ toks[i + 1].type \in {"RPAREN", "EOF"}

Without(toks, i) == SubSeq(toks, 1, i - 1) \o SubSeq(toks, i + 1, Len(toks))

\* C19: an OR with a left operand and no right operand is treated as
\* absent: `X OR` parses as `X`, `(X OR) Y` as `(X) Y`.
C19_TrailingOr ==
  /\ (stage = "parsed" /\ tokens # <<>>) =>
       \A i \in DOMAIN tokens : TrailingOr(tokens, i) => parse(Without(tokens, i)) = ast
  /\ (stage = "parsed" /\ query = <<"a", " ", "O", "R", " ">>)
       => ast = TermNode(TextOperator(<<"a">>), FALSE)

\* (a OR )b has been parsed to the and of a and b
C19_Witness ==
  /\ stage = "parsed"
  /\ Len(tokens) = 6
  /\ tokens[1].type = "LPAREN"
  /\ TrailingOr(tokens, 3)
  /\ tokens[4].type = "RPAREN"
  /\ ast = [type |-> "and",
            children |-> <<TermNode(TextOperator(<<"a">>), FALSE),
                           TermNode(TextOperator(<<"b">>), FALSE)>>]

(***************************************************************************)
(* The '-' sign                                                            *)
(***************************************************************************)
QuoteFree(input) == \A p \in DOMAIN input : input[p] \notin {"\"", "'"}

\* in a quote-free input, the '-' at p stands at the start of a token and a
\* non-whitespace character follows it
RECURSIVE NegationAt(_, _)
NegationAt(input, p) ==
  /\ input[p] = "-"
  /\ p < Len(input)
  /\ input[p + 1] \notin {" ", "\t", "\n"}
  /\ \/ p = 1
     \/ input[p - 1] \in {" ", "\t", "\n", "(", ")"}
     \/ NegationAt(input, p - 1)

\* in a quote-free input, a token starts at p
TokenStartsAt(input, p) ==
  /\ input[p] \notin {" ", "\t", "\n"}
  /\ \/ input[p] \in {"(", ")"}
     \/ p = 1
     \/ input[p - 1] \in {" ", "\t", "\n", "(", ")"}
     \/ NegationAt(input, p - 1)

TokenStarts(input) ==
  SelectSeq([p \in 1..Len(input) |-> p], LAMBDA p : TokenStartsAt(input, p))

\* C20: a '-' gives a NEGATION token iff it stands at the start of a token
\* and a non-whitespace character follows it; at the end of the input or
\* before whitespace it is the word '-'; inside a word it gives no token.
C20_NegationToken ==
  /\ (stage = "parsed" /\ tokens # <<>> /\ QuoteFree(query)) =>
       LET input == trim(query)
           starts == TokenStarts(input)
       IN /\ Len(tokens) = Len(starts) + 1
          /\ \A k \in 1..Len(starts) :
               /\ tokens[k].type = "NEGATION" <=> NegationAt(input, starts[k])
               /\ (input[starts[k]] = "-" /\ ~NegationAt(input, starts[k]))
                    => tokens[k] = [type |-> "WORD", value |-> <<"-">>]
  /\ (stage = "parsed" /\ query = <<"w","e","l","l","-","k","n","o","w","n">>)
       => tokens = <<[type |-> "WORD", value |-> <<"w","e","l","l","-","k","n","o","w","n">>], [type |-> "EOF", value |-> <<>>]>>
  /\ (stage = "parsed" /\ query = <<"b","e","f","o","r","e",":","2","0","2","4","-","0","1","-","1","5">>)
       => (Len(tokens) = 2 /\ tokens[1].type = "OPERATOR" /\ tokens[1].value = <<"b","e","f","o","r","e",":","2","0","2","4","-","0","1","-","1","5">>)

\* -a - : a negation, the word a and the word '-'
C20_Witness ==
  /\ stage = "parsed"
  /\ Len(tokens) = 4
  /\ tokens[1].type = "NEGATION"
  /\ tokens[2] = [type |-> "WORD", value |-> <<"a">>]
  /\ tokens[3] = [type |-> "WORD", value |-> <<"-">>]

(***************************************************************************)
(* parseSearchQuery on short strings over the characters the tokenizer     *)
(* distinguishes                                                           *)
(***************************************************************************)
MaxPieces == 4

\* a letter, the whitespace, both quotes, the backslash, the colon, the
\* parentheses, the minus sign and the keyword
Pieces == { <<"B">>, <<" ">>, <<"\"">>, <<"'">>, <<"\\">>, <<":">>, <<"(">>, <<")">>, <<"-">>,
            <<"O", "R">> }

\* the queries of the tokenizer tests
LexExamples ==
  { <<"\"","h","e","l","l","o"," ","w","o","r","l","d","\"">>,
    <<"\"","h","e","l","l","o"," ","\\","\"","w","o","r","l","d","\\","\"","\"">>,
    <<"'","h","e","l","l","o"," ","w","o","r","l","d","'">>,
    <<"\"","u","n","c","l","o","s","e","d">>,
    <<"h","e","l","l","o"," "," "," "," ","w","o","r","l","d">>,
    <<" "," ","h","e","l","l","o"," ","w","o","r","l","d"," "," ">>,
    <<"-","\"","a",":","b"," ","(","c",")"," ","O","R"," ","-","d","\"">>,
    <<"(","\"","a"," ","b","\"",")">>,
    <<"F","r","o","m",":","A","l","i","c","e">>,
    <<"a",":","b",":","c">>,
    <<"O","R",":","a">>,
    <<"-","B",":","b">>,
    <<"\"","i","t","'","s","\""," ","'","a","\"","b","'">>,
    <<"\"","a","\\","\\","\""," ","b">>,
    <<"a","\"","b"," ","c","\"">>,
    <<"'","a"," ","b">>,
    <<"\"","\"">>,
    <<"(","\t","\"","a","\t","b","\"","\n",")">> }

Quotes == { "\"", "'" }

\* q is a concatenation of at most n pieces
IsPieces(q, max) == \E n \in 0..max : \E ps \in [1..n -> Pieces] : q = Flatten(ps)

\* short strings, short strings between a pair of quotes, and the examples
IsLexQuery(q) ==
  \/ IsPieces(q, MaxPieces)
  \/ \E quote \in Quotes, n \in 0..MaxPieces :
       \E ps \in [1..n -> Pieces] : q = <<quote>> \o Flatten(ps) \o <<quote>>
  \/ q \in LexExamples

LexInit ==
  /\ IsLexQuery(query)
  /\ stage = "input"
  /\ tokens = <<>>
  /\ ast = Null
  /\ Idle

LexSpec == LexInit /\ [][Next]_vars

(***************************************************************************)
(* Quoted strings                                                          *)
(***************************************************************************)
\* number of backslashes in a row directly before position i, from lo on
RECURSIVE BackslashesBefore(_, _, _)
BackslashesBefore(input, lo, i) ==
  IF i - 1 >= lo /\ input[i - 1] = "\\" THEN 1 + BackslashesBefore(input, lo, i - 1) ELSE 0

\* the character at i is made literal by a backslash
Escaped(input, lo, i) == BackslashesBefore(input, lo, i) % 2 = 1

\* where a quote opens in input: at its first character or directly after
\* a leading '-' or '('; 0 if neither
QuoteAt(input) ==
  IF Len(input) >= 1 /\ input[1] \in Quotes THEN 1
  ELSE IF Len(input) >= 2 /\ input[1] \in {"-", "("} /\ input[2] \in Quotes THEN 2
  ELSE 0

\* position of the quote that closes the one opened at p; 0 if there is none
ClosingQuote(input, p) ==
  LET closers == { e \in (p + 1)..Len(input) :
                     input[e] = input[p] /\ ~Escaped(input, p + 1, e) }
  IN IF closers = {} THEN 0 ELSE CHOOSE e \in closers : \A f \in closers : e <= f

\* input[lo..hi] without the backslashes that make the next character literal
Unescaped(input, lo, hi) ==
  LET keep == SelectSeq([k \in 1..(hi - lo + 1) |-> lo + k - 1],
                        LAMBDA i : ~(input[i] = "\\" /\ ~Escaped(input, lo, i)))
  IN [k \in 1..Len(keep) |-> input[keep[k]]]

\* C21: a quote that is opened and not closed before the end of the input
\* gives one WORD token holding the whole text from the quote character to
\* the end of the input, and that text is one literal text term.
C21_UnclosedQuote ==
  (stage = "parsed" /\ tokens # <<>>) =>
    LET input == trim(query)
        p == QuoteAt(input)
    IN (p > 0 /\ ClosingQuote(input, p) = 0) =>
         LET text == SubSeq(input, p, Len(input))
         IN /\ Len(tokens) = p + 1
            /\ tokens[p] = [type |-> "WORD", value |-> text]
            /\ ast = TermNode(TextOperator(text), input[1] = "-")

\* C22: a closed quoted string is exactly one QUOTED token and one text term
\* whose value is the inner text without the escaping backslashes, whatever
\* the inner text holds: spaces, parentheses, OR, '-', name:value.
C22_QuotedVerbatim ==
  /\ (stage = "parsed" /\ tokens # <<>>) =>
       LET input == trim(query)
           p == QuoteAt(input)
       IN (p > 0 /\ ClosingQuote(input, p) > 0) =>
            LET e == ClosingQuote(input, p)
                value == Unescaped(input, p + 1, e - 1)
                term == TermNode(TextOperator(value), input[1] = "-")
            IN /\ tokens[p] = [type |-> "QUOTED", value |-> value]
               /\ SubSeq(tokens, p + 1, Len(tokens))
                    = tokenize(SubSeq(input, e + 1, Len(input)))
               /\ Leaves(ast)[1] = term
               /\ e = Len(input) => ast = term
  /\ (stage = "parsed" /\ query = <<"\"","h","e","l","l","o"," ","\\","\"","w","o","r","l","d","\\","\"","\"">>) => ast = TermNode(TextOperator(<<"h","e","l","l","o"," ","\"","w","o","r","l","d","\"">>), FALSE)
  /\ (stage = "parsed" /\ query = <<"'","h","e","l","l","o"," ","w","o","r","l","d","'">>) => ast = TermNode(TextOperator(<<"h","e","l","l","o"," ","w","o","r","l","d">>), FALSE)

\* -"a:b (c) OR -d" has been parsed to one negated text term
C22_Witness ==
  /\ stage = "parsed"
  /\ query = <<"-","\"","a",":","b"," ","(","c",")"," ","O","R"," ","-","d","\"">>
  /\ Len(tokens) = 3
  /\ ast = TermNode(TextOperator(<<"a",":","b"," ","(","c",")"," ","O","R"," ","-","d">>), TRUE)

(***************************************************************************)
(* Words and operators                                                     *)
(***************************************************************************)
\* the run of characters other than whitespace and parentheses from s on
WordAt(input, s) ==
  LET t == CHOOSE t \in s..Len(input) :
             /\ \A i \in s..t : input[i] \notin {" ", "\t", "\n", "(", ")"}
             /\ t < Len(input) => input[t + 1] \in {" ", "\t", "\n", "(", ")"}
  IN SubSeq(input, s, t)

\* the lower-case letter of the capitals the inputs are written with
LowerOf(ch) ==
  CASE ch = "A" -> "a"
    [] ch = "B" -> "b"
    [] ch = "F" -> "f"
    [] ch = "O" -> "o"
    [] ch = "R" -> "r"
    [] OTHER -> ch

\* the OPERATOR token of a word split at its colon c
SplitAt(word, c) ==
  [type |-> "OPERATOR", value |-> word,
   operatorName |-> [i \in 1..(c - 1) |-> LowerOf(word[i])],
   operatorValue |-> [i \in 1..(Len(word) - c) |-> word[c + i]]]

Least(S) == CHOOSE x \in S : \A y \in S : x <= y

\* the token of a word by the rule as stated: an operator iff some colon
\* has a character before it and a character after it, split at the first
\* such colon
TokenByInnerColon(word) ==
  LET inner == { i \in 2..(Len(word) - 1) : word[i] = ":" }
  IN IF word = <<"O", "R">> THEN [type |-> "OR", value |-> word]
     ELSE IF inner # {} THEN SplitAt(word, Least(inner))
     ELSE [type |-> "WORD", value |-> word]

\* the token of a word by its first colon: an operator iff the first colon
\* of the word has a character before it and a character after it
TokenByFirstColon(word) ==
  LET colons == { i \in 1..Len(word) : word[i] = ":" }
  IN IF word = <<"O", "R">> THEN [type |-> "OR", value |-> word]
     ELSE IF colons # {} /\ Least(colons) > 1 /\ Least(colons) < Len(word)
     THEN SplitAt(word, Least(colons))
     ELSE [type |-> "WORD", value |-> word]

\* the starts of the words of a quote-free input: token starts that are
\* neither a parenthesis nor a negation
IsWordStart(input, s) == input[s] \notin {"(", ")"} /\ ~NegationAt(input, s)

\* C23 as stated: a word other than OR is an OPERATOR token iff it has a
\* colon at an index strictly between 0 and length-1, split at the first
\* such colon into the lower-cased name and the raw value; otherwise a WORD.
C23_InnerColon ==
  (stage = "parsed" /\ tokens # <<>> /\ QuoteFree(query)) =>
    LET input == trim(query)
        starts == TokenStarts(input)
    IN /\ Len(tokens) = Len(starts) + 1
       /\ \A k \in 1..Len(starts) :
            IsWordStart(input, starts[k])
              => tokens[k] = TokenByInnerColon(WordAt(input, starts[k]))

\* C23, amended: a word other than OR is an OPERATOR token iff its first
\* colon is at an index strictly between 0 and length-1, split there into
\* the lower-cased name and the raw value, the token keeping the whole word;
\* otherwise a WORD with the raw text.
C23_FirstColon ==
  /\ (stage = "parsed" /\ tokens # <<>> /\ QuoteFree(query)) =>
       LET input == trim(query)
           starts == TokenStarts(input)
       IN /\ Len(tokens) = Len(starts) + 1
          /\ \A k \in 1..Len(starts) :
               IsWordStart(input, starts[k])
                 => tokens[k] = TokenByFirstColon(WordAt(input, starts[k]))
  /\ (stage = "parsed" /\ query = <<"F","r","o","m",":","A","l","i","c","e">>) =>
       tokens[1] = [type |-> "OPERATOR", value |-> <<"F","r","o","m",":","A","l","i","c","e">>, operatorName |-> <<"f","r","o","m">>,
                    operatorValue |-> <<"A","l","i","c","e">>]

\* B:B: has been split at its first colon into the name b and the value B:
C23_Witness ==
  /\ stage = "parsed"
  /\ query = <<"B", ":", "B", ":">>
  /\ tokens[1] = [type |-> "OPERATOR", value |-> query, operatorName |-> <<"b">>,
                  operatorValue |-> <<"B", ":">>]

(***************************************************************************)
(* mentions:                                                               *)
(***************************************************************************)
\* C24: mentions:V selects a listed post iff one of the accounts it mentions
\* has the handle @V exactly (V with a domain) or @V@<domain> with the
\* username exactly V; the author does not count and a post without
\* mentions is never selected.
C24_MentionsExact ==
  (SearchedTerm("mentions") /\ Listed)
  => (selected <=> \E id \in post.mentions : ExactFrom(ast.operator.value, Accounts[id]))

(***************************************************************************)
(* Whitespace                                                              *)
(***************************************************************************)
\* The whitespace positions of input from p on that lie outside quoted
\* strings.  mode is "start" at the start of a token, "word" inside a word,
\* and the quote character inside a string opened by it.
RECURSIVE GapsFrom(_, _, _)
GapsFrom(input, p, mode) ==
  IF p > Len(input) THEN {}
  ELSE
    LET ch == input[p]
        blank == ch \in {" ", "\t", "\n"}
    IN CASE mode \in Quotes /\ ch = "\\" -> GapsFrom(input, p + 2, mode)
         [] mode \in Quotes /\ ch = mode -> GapsFrom(input, p + 1, "start")
         [] mode \in Quotes /\ ch \notin {"\\", mode} -> GapsFrom(input, p + 1, mode)
         [] mode \notin Quotes /\ blank -> {p} \cup GapsFrom(input, p + 1, "start")
         [] mode \notin Quotes /\ ch \in {"(", ")"} -> GapsFrom(input, p + 1, "start")
         [] mode = "start" /\ ch = "-" /\ p < Len(input)
              /\ input[p + 1] \notin {" ", "\t", "\n"} -> GapsFrom(input, p + 1, "start")
         [] mode = "start" /\ ch \in Quotes -> GapsFrom(input, p + 1, ch)
         [] OTHER -> GapsFrom(input, p + 1, "word")

Gaps(input) == GapsFrom(input, 1, "start")

\* input with the character ch put in before position p
InsertAt(input, p, ch) == SubSeq(input, 1, p - 1) \o <<ch>> \o SubSeq(input, p, Len(input))

\* C25: lengthening a whitespace run outside quoted strings, or adding
\* whitespace in front of or behind the query, yields an equal AST.
C25_Whitespace ==
  /\ stage = "parsed" =>
       \A ch \in {" ", "\t", "\n"} :
         /\ parseSearchQuery(<<ch>> \o query) = ast
         /\ parseSearchQuery(query \o <<ch>>) = ast
         /\ \A p \in Gaps(query) : parseSearchQuery(InsertAt(query, p, ch)) = ast
  /\ (stage = "parsed" /\ query = <<"h","e","l","l","o"," "," "," "," ","w","o","r","l","d">>) => ast = parseSearchQuery(<<"h","e","l","l","o"," ","w","o","r","l","d">>)
  /\ (stage = "parsed" /\ query = <<" "," ","h","e","l","l","o"," ","w","o","r","l","d"," "," ">>) => ast = parseSearchQuery(<<"h","e","l","l","o"," ","w","o","r","l","d">>)

\* ( "a<tab>b" ) with a tab and a newline around the string and a tab in it
C25_Witness ==
  /\ stage = "parsed"
  /\ Gaps(query) = {2, 8}
  /\ query[5] = "\t"
  /\ ast = TermNode(TextOperator(<<"a", "\t", "b">>), FALSE)

(***************************************************************************)
(* The status search on AND / OR combinations and on negated groups        *)
(***************************************************************************)
\* terms on a nullable column (language, contentHtml, published) and on one
\* that is tested with IS NOT NULL
GroupTerms ==
  { <<"l","a","n","g","u","a","g","e",":","e","n">>,
    <<"h","a","s",":","p","o","l","l">>,
    <<"h","e","l","l","o">>,
    <<"b","e","f","o","r","e",":","2","0","2","4","-","0","1","-","1","5">> }

GroupExamples ==
  { <<"(","h","a","s",":","m","e","d","i","a"," ","O","R"," ","h","a","s",":","p","o","l","l",")"," ","l","a","n","g","u","a","g","e",":","e","n"," ","-","i","s",":","s","e","n","s","i","t","i","v","e"," ","a","f","t","e","r",":","2","0","2","4","-","0","1","-","0","1">>,
    <<"-","(","(","l","a","n","g","u","a","g","e",":","e","n"," ","O","R"," ","h","a","s",":","p","o","l","l",")"," ","h","e","l","l","o",")">>,
    <<"-","(","-","(","l","a","n","g","u","a","g","e",":","e","n"," ","h","e","l","l","o",")"," ","O","R"," ","h","a","s",":","p","o","l","l",")">>,
    <<"-","(","l","a","n","g","u","a","g","e",":","k","o",")">>,
    <<"-","(","h","e","l","l","o"," ","l","a","n","g","u","a","g","e",":","e","n"," ","b","e","f","o","r","e",":","2","0","2","4","-","0","1","-","1","5",")">>,
    <<"-","(",")">>,
    <<"h","t","t","p","s",":","/","/","a",".","i","o","/","1">> }

\* two terms, the first possibly negated, joined by AND or OR: bare or as a
\* negated group
IsGroupQuery(q) ==
  \/ \E x \in GroupTerms, y \in GroupTerms, sign \in Signs, sep \in Separators,
        open \in { <<>>, <<"-", "(">> } :
       q = Compose(open, sign \o x, sep, y)
  \/ q \in GroupExamples

\* the values of the columns the group terms read, in every combination
GroupColumns ==
  [ contentHtml : { BasePost.contentHtml, NULL },
    language : { Some(<<"e","n">>), Some(<<"k","o">>), NULL },
    pollId : { NULL, Some(1) },
    published : { NULL, Some([day |-> 19736, ms |-> 86399999]), Some([day |-> 19737, ms |-> 0]) },
    sensitive : { Some(FALSE), Some(TRUE) },
    media : { 0, 1 },
    sharingId : { NULL, Some(1) } ]

\* row is BasePost with those columns set
IsGroupPost(row) ==
  \E c \in GroupColumns :
    row = [f \in Fields |-> IF f \in DOMAIN c THEN c[f] ELSE BasePost[f]]

GroupInit ==
  /\ IsGroupQuery(query)
  /\ IsGroupPost(post)
  /\ accountId = NULL
  /\ stage = "input"
  /\ tokens = <<>>
  /\ ast = Null
  /\ filter = Null
  /\ selected = FALSE
  /\ other = Null
  /\ pos = 0
  /\ stack = <<>>
  /\ ret = Null
  /\ threw = FALSE

GroupSpec == GroupInit /\ [][SearchNext]_vars

(***************************************************************************)
(* AND / OR as set algebra                                                 *)
(***************************************************************************)
\* whether row is in the set an AST denotes: the rows its leaf filter
\* selects for a term, the intersection for and, the union for or
RECURSIVE InSetOf(_, _)
InSetOf(node, row) ==
  IF node.type = "term" THEN selects(buildTermFilter(node), row)
  ELSE IF node.type = "and"
    THEN \A i \in 1..Len(node.children) : InSetOf(node.children[i], row)
  ELSE \E i \in 1..Len(node.children) : InSetOf(node.children[i], row)

\* C26: the posts selected by buildSearchFilter(ast) are those given by set
\* algebra over the leaves: intersection for and, union for or; the filter
\* of the combined example selects exactly the posts with media or a poll,
\* language en, not sensitive, published at or after 2024-01-01 00:00 UTC.
C26_SetAlgebra ==
  /\ (stage = "searched" /\ ast # Null) =>
       /\ selects(buildSearchFilter(ast), post) <=> InSetOf(ast, post)
       /\ selected <=> (Listed /\ InSetOf(ast, post))
  /\ (stage = "searched" /\ query = <<"(","h","a","s",":","m","e","d","i","a"," ","O","R"," ","h","a","s",":","p","o","l","l",")"," ","l","a","n","g","u","a","g","e",":","e","n"," ","-","i","s",":","s","e","n","s","i","t","i","v","e"," ","a","f","t","e","r",":","2","0","2","4","-","0","1","-","0","1">>) =>
       (selects(buildSearchFilter(ast), post)
          <=> /\ post.media > 0 \/ post.pollId # NULL
              /\ post.language = Some(<<"e", "n">>)
              /\ post.sensitive = Some(FALSE)
              /\ post.published # NULL
              /\ post.published[1].day >= 19723)

\* the combined example selected a post with a poll and no media
C26_Witness ==
  /\ stage = "searched"
  /\ query = <<"(","h","a","s",":","m","e","d","i","a"," ","O","R"," ","h","a","s",":","p","o","l","l",")"," ","l","a","n","g","u","a","g","e",":","e","n"," ","-","i","s",":","s","e","n","s","i","t","i","v","e"," ","a","f","t","e","r",":","2","0","2","4","-","0","1","-","0","1">>
  /\ post.media = 0
  /\ post.pollId # NULL
  /\ selected

(***************************************************************************)
(* Negated groups against rows                                             *)
(***************************************************************************)
\* NOT in three-valued logic
Not3(v) == CASE v = "T" -> "F" [] v = "F" -> "T" [] OTHER -> "N"

\* the AST of the group of a query -(G)
GroupAst == parse(Tail(tokens))

\* C29: the filter compiled for -(G) is the three-valued negation of the
\* filter compiled for (G) on every post: -(G) selects a listed post exactly
\* when the predicate of (G) evaluates to false on it.
C29_NegatedGroupExact ==
  (stage = "searched" /\ NegatedGroup(tokens) /\ ast # Null) =>
    LET value == evalCondition(buildSearchFilter(GroupAst), post)
    IN /\ evalCondition(buildSearchFilter(ast), post) = Not3(value)
       /\ Listed => (selected <=> value = "F")

\* -(X Y) on a post on which X is NULL and Y is true: neither (X Y) nor
\* -(X Y) selects it
C29_Witness ==
  /\ stage = "searched"
  /\ NegatedGroup(tokens)
  /\ ast # Null
  /\ ast.type = "or"
  /\ Listed
  /\ post.language = NULL
  /\ evalCondition(buildSearchFilter(GroupAst), post) = "N"
  /\ ~selected

(***************************************************************************)
(* Null results and lost terms                                             *)
(***************************************************************************)
IsSearchToken(tok) == tok.type \in {"WORD", "QUOTED", "OPERATOR", "OR"}

\* C27: parseSearchQuery returns null only if the token stream of the query
\* holds no WORD, QUOTED, OPERATOR or OR token.
C27_NullOnlyIfEmpty ==
  (stage = "parsed" /\ ast = Null) => \A i \in DOMAIN tokens : ~IsSearchToken(tokens[i])

\* the operators of the term tokens, the text ORs among them, in order
TermOperators(toks) ==
  LET words == OrAsWord(toks)
      ps == TermPositions(words)
  IN [k \in 1..Len(ps) |-> TermOf(words, ps[k]).operator]

\* C28: the term leaves of the returned AST, read left to right, are the
\* WORD, QUOTED and OPERATOR tokens of the input and its OR tokens read as
\* text, one to one and in order, also when parentheses are unbalanced.
C28_NoTermLost ==
  (stage = "parsed" /\ tokens # <<>>) =>
    LET leaves == Leaves(ast)
    IN [k \in 1..Len(leaves) |-> leaves[k].operator] = TermOperators(tokens)

(***************************************************************************)
(* Operator values                                                         *)
(***************************************************************************)
\* C30: every term of every returned AST has a non-empty operator value.
C30_NonEmptyValues ==
  (stage = "parsed" /\ ast # Null) =>
    \A k \in 1..Len(Leaves(ast)) : Leaves(ast)[k].operator.value # <<>>

====
